---- MODULE Spec2Model ----
(***************************************************************************)
(* NetworkGraph (src/unnamed/part_004): a force-directed graph drawn on a  *)
(* canvas, with drag / pan / pinch / wheel interaction, an animation loop  *)
(* and a speed throttle, as a state machine.                               *)
(*                                                                         *)
(* Numbers.  The component computes with IEEE doubles.  Here a coordinate  *)
(* is a tagged value: a finite fixed-point number with Unit steps per      *)
(* canvas unit, or NaN, +Infinity, -Infinity, or undefined.  The zoom      *)
(* scale counts steps of 1/scaleUnit.  Quotients are rounded to the        *)
(* nearest step.  The animation speed keeps the double it is, as steps of  *)
(* 1/speedUnit and the distance from them in 2^-50.                        *)
(***************************************************************************)
EXTENDS Integers, Sequences, FiniteSets, TLC

\* ------------------------------------------------------------------ bounds
Unit == 10
MaxInputs == 2
MaxFrames == 2
MaxTimerTicks == 1

\* --------------------------------------------------------- layoutSettings
repulsionForce == 50
attractionForcePerMille == 100
distanceThreshold == 100
minAttractionDistance == 150
springForcePerMille == 5
speedUnit == 10
initialAnimationSpeed == 250
minAnimationSpeed == 50
animationSpeedDecreaseRate == 1
visualizationOpacityFactorPerTen == 5
nodeRadius == 15
scaleUnit == 2000
canvasScaleMin == 200
canvasScaleMax == 10000
initialScale == 1800
wheelStep == 2
pinchStep == 1
baseRadius == 200
minSeparation == 50
radiusIncrement == 10
edgeCullPadding == 50
nodeCullPadding == 45

\* ------------------------------------------------------------ JS numbers
Fin(v) == [k |-> "fin", v |-> v]
NaN == [k |-> "nan", v |-> 0]
PosInf == [k |-> "inf", v |-> 1]
NegInf == [k |-> "inf", v |-> -1]
Undefined == [k |-> "undef", v |-> 0]

IsFin(a) == a.k = "fin"
IsDefined(a) == a.k # "undef"
\* JavaScript truthiness of a number-or-undefined: 0, NaN and undefined are
\* falsy.
Truthy(a) == (a.k = "fin" /\ a.v # 0) \/ a.k = "inf"

Abs(n) == IF n < 0 THEN -n ELSE n
Sign(n) == IF n < 0 THEN -1 ELSE IF n > 0 THEN 1 ELSE 0
Max2(a, b) == IF a >= b THEN a ELSE b
Min2(a, b) == IF a <= b THEN a ELSE b

\* n / d rounded to the nearest integer, halves away from zero (d > 0).
RoundDiv(n, d) == Sign(n) * ((Abs(n) + d \div 2) \div d)

\* x * c / d for a large x and a ratio c / d with |c| <= d < 2^15, without
\* leaving 32 bits.
MulDiv(x, c, d) ==
    LET ax == Abs(x)
        s == Sign(x)
    IN  s * ((ax \div d) * c + RoundDiv((ax % d) * c, d))

RECURSIVE SqrtSearch(_, _, _)
SqrtSearch(n, lo, hi) ==
    IF lo >= hi THEN lo
    ELSE LET mid == (lo + hi + 1) \div 2
         IN  IF mid * mid <= n THEN SqrtSearch(n, mid, hi)
             ELSE SqrtSearch(n, lo, mid - 1)

\* Math.sqrt of a non-negative integer below 2^31, to the nearest integer.
Sqrt(n) ==
    LET r == SqrtSearch(n, 0, 46340)
    IN  IF n - r * r > r THEN r + 1 ELSE r

\* sqrt(dx*dx + dy*dy) of two finite steps; large operands are scaled down
\* first so that the squares fit.
Hypot(dx, dy) ==
    LET m == Max2(Abs(dx), Abs(dy))
        s == m \div 30000 + 1
    IN  Sqrt((dx \div s) * (dx \div s) + (dy \div s) * (dy \div s)) * s

\* a + b as JavaScript adds numbers (undefined converts to NaN).
JsAdd(a, b) ==
    IF a.k \in {"nan", "undef"} \/ b.k \in {"nan", "undef"} THEN NaN
    ELSE IF a.k = "inf" /\ b.k = "inf" THEN (IF a.v = b.v THEN a ELSE NaN)
    ELSE IF a.k = "inf" THEN a
    ELSE IF b.k = "inf" THEN b
    ELSE Fin(a.v + b.v)

JsNeg(a) == IF a.k = "inf" THEN [k |-> "inf", v |-> -a.v]
            ELSE IF a.k = "fin" THEN Fin(-a.v)
            ELSE NaN

JsSub(a, b) == JsAdd(a, JsNeg(b))

\* a * (c / d) for a positive ratio c / d.
JsScale(a, c, d) ==
    IF a.k = "fin" THEN Fin(MulDiv(a.v, c, d))
    ELSE IF a.k = "inf" THEN a
    ELSE NaN

\* cos and sin of 0, 10, ..., 350 degrees, in steps of 1/10000.
trigUnit == 10000
CosTable == << 10000, 9848, 9397, 8660, 7660, 6428, 5000, 3420, 1736, 0,
               -1736, -3420, -5000, -6428, -7660, -8660, -9397, -9848,
               -10000, -9848, -9397, -8660, -7660, -6428, -5000, -3420,
               -1736, 0, 1736, 3420, 5000, 6428, 7660, 8660, 9397, 9848 >>
Cos10(slot) == CosTable[(slot % 36) + 1]
Sin10(slot) == CosTable[((slot + 27) % 36) + 1]

\* ------------------------------------------------------------------ nodes
\* A Node: id, label, optional x / y, optional targetX / targetY, edges.
\* An absent edges list and an empty one are the same to every reader of
\* the field (!n.edges || n.edges.length === 0), so absent is <<>> here.
MkNode(id, x, y, tx, ty, edges) ==
    [id |-> id, label |-> id, x |-> x, y |-> y,
     targetX |-> tx, targetY |-> ty, edges |-> edges]

InSeq(e, s) == \E k \in 1..Len(s) : s[k] = e
Indices(ns) == [i \in 1..Len(ns) |-> i]
\* The first match, or the last node where FindNode gives 0.
FindNodeOrLast(ns, id) ==
    LET hits == {i \in 1..Len(ns) : ns[i].id = id}
    IN  IF hits = {} THEN Len(ns) ELSE CHOOSE i \in hits : \A j \in hits : i <= j
\* memoizedNodes().find((n) => n.id === id): the first match, or 0.
FindNode(ns, id) ==
    LET hits == {i \in 1..Len(ns) : ns[i].id = id}
    IN  IF hits = {} THEN 0 ELSE CHOOSE i \in hits : \A j \in hits : i <= j

HasXY(n) == IsFin(n.x) /\ IsFin(n.y)

\* Math.hypot(n.x - px, n.y - py) < lim, for a finite point (px, py); a NaN
\* or infinite distance is not below lim.
NearPoint(n, px, py, lim) ==
    /\ HasXY(n)
    /\ Abs(n.x.v - px) < lim
    /\ Abs(n.y.v - py) < lim
    /\ (n.x.v - px) * (n.x.v - px) + (n.y.v - py) * (n.y.v - py) < lim * lim

\* ---------------------------------------------------------- positionNodes
SlotX(centerX, radius, slot) == centerX + MulDiv(radius, Cos10(slot), trigUnit)
SlotY(centerY, radius, slot) == centerY + MulDiv(radius, Sin10(slot), trigUnit)

\* Taken only by a node within half the minimum separation.
SlotTakenWithinHalf(ns, px, py) ==
    \E i \in 1..Len(ns) : NearPoint(ns[i], px, py, (minSeparation * Unit) \div 2)
SlotTaken(ns, px, py) ==
    \E i \in 1..Len(ns) : NearPoint(ns[i], px, py, minSeparation * Unit)

\* The for loop over i = 0, 10, ..., 350: the first free slot, or -1.
FirstFreeSlot(ns, centerX, centerY, radius) ==
    LET free == {s \in 0..35 :
                   ~SlotTaken(ns, SlotX(centerX, radius, s), SlotY(centerY, radius, s))}
    IN  IF free = {} THEN -1 ELSE CHOOSE s \in free : \A t \in free : s <= t

\* angle = (index / length) * 2 * PI on the 10 degree grid of the tables
\* (exact whenever length divides 36 * index, as for every list of up to
\* four nodes).
AngleSlot(index, length) == (index * 36) \div length

\* The while loop that grows the radius along the node's own angle.
RECURSIVE GrowRadius(_, _, _, _, _)
GrowRadius(ns, centerX, centerY, aslot, radius) ==
    IF SlotTaken(ns, SlotX(centerX, radius, aslot), SlotY(centerY, radius, aslot))
    THEN GrowRadius(ns, centerX, centerY, aslot, radius + radiusIncrement * Unit)
    ELSE radius

\* if (node.x && node.y) return;
AlreadyPlaced(n) == Truthy(n.x) /\ Truthy(n.y)

RECURSIVE orderNodes(_, _, _, _, _, _, _)
RECURSIVE OrderEach(_, _, _, _, _, _)
\* node.x = x; node.y = y; then the nodes with an edge to this node, in turn.
PlaceNode(ns, i, slot, radius, centerX, centerY) ==
    OrderEach([ns EXCEPT ![i].x = Fin(SlotX(centerX, radius, slot)),
                         ![i].y = Fin(SlotY(centerY, radius, slot))],
              SelectSeq(Indices(ns), LAMBDA j : InSeq(ns[i].id, ns[j].edges)),
              1, radius, centerX, centerY)
\* The slot search: the first free slot at this radius (foundEmptySpot), or
\* else the node's own angle at a grown radius.
PlaceAtSlot(ns, i, s, aslot, radius, centerX, centerY) ==
    IF s >= 0 THEN PlaceNode(ns, i, s, radius, centerX, centerY)
    ELSE PlaceNode(ns, i, aslot, GrowRadius(ns, centerX, centerY, aslot, radius),
                   centerX, centerY)
orderNodes(ns, i, length, index, radius, centerX, centerY) ==
    IF AlreadyPlaced(ns[i]) THEN ns
    ELSE PlaceAtSlot(ns, i, FirstFreeSlot(ns, centerX, centerY, radius),
                     AngleSlot(index, length), radius, centerX, centerY)
OrderEach(ns, list, k, radius, centerX, centerY) ==
    IF k > Len(list) THEN ns
    ELSE OrderEach(orderNodes(ns, list[k], Len(list), k - 1, radius, centerX, centerY),
                   list, k + 1, radius, centerX, centerY)

positionNodes(ns, centerX, centerY) ==
    LET nodesWithoutEdges == SelectSeq(Indices(ns), LAMBDA j : Len(ns[j].edges) = 0)
    IN  OrderEach(ns, nodesWithoutEdges, 1, baseRadius * Unit, centerX, centerY)

\* ---------------------------------------------------- applyRepulsionForces
\* The magnitude of the repulsion step with the opposite sign: nodeA is
\* pulled towards nodeB.
RepulsionStepInward(d, distance, speed) ==
    - RoundDiv(((repulsionForce * Unit * Unit * Unit * visualizationOpacityFactorPerTen)
                  \div (10 * speedUnit)) * speed * d,
               distance * distance * distance)

\* The displacement of one pair along one axis:
\* repulsionForce / distance^2 * (d / distance) * visualizationOpacityFactor
\* * animationSpeed, where cos and sin of atan2(dy, dx) are dx / distance and
\* dy / distance.
RepulsionStep(d, distance, speed) ==
    RoundDiv(((repulsionForce * Unit * Unit * Unit * visualizationOpacityFactorPerTen)
                \div (10 * speedUnit)) * speed * d,
             distance * distance * distance)

\* Only nodeA moves.
DisplaceFirstOnly(ns, a, b, vx, vy) ==
    IF a = b THEN ns
    ELSE [ns EXCEPT ![a].x = Fin(ns[a].x.v + vx), ![a].y = Fin(ns[a].y.v + vy)]
\* nodeA moves by (vx, vy), nodeB by (-vx, -vy).
Displace(ns, a, b, vx, vy) ==
    IF a = b THEN ns
    ELSE [ns EXCEPT ![a].x = Fin(ns[a].x.v + vx), ![a].y = Fin(ns[a].y.v + vy),
                    ![b].x = Fin(ns[b].x.v - vx), ![b].y = Fin(ns[b].y.v - vy)]

\* One (nodeA, nodeB) visit of the double forEach.
RepelPair(ns, a, b, speed) ==
    LET A == ns[a]
        B == ns[b]
        T == distanceThreshold * Unit
    IN  IF ~IsDefined(A.x) \/ ~IsDefined(A.y) \/ ~IsDefined(B.x) \/ ~IsDefined(B.y)
        THEN ns
        ELSE IF ~HasXY(A) \/ ~HasXY(B)
        THEN ns   \* distance is NaN or Infinity: not below the threshold
        ELSE LET dx == A.x.v - B.x.v
                 dy == A.y.v - B.y.v
             IN  IF Abs(dx) >= T \/ Abs(dy) >= T \/ dx * dx + dy * dy >= T * T
                 THEN ns
                 ELSE IF dx = 0 /\ dy = 0
                 THEN \* force = 50 / 0 = Infinity, angle = atan2(0, 0) = 0:
                      \* Infinity * cos(0) = Infinity, Infinity * sin(0) = NaN.
                      [ns EXCEPT ![a].x = PosInf, ![a].y = NaN,
                                 ![b].x = NegInf, ![b].y = NaN]
                 ELSE Displace(ns, a, b,
                               RepulsionStep(dx, Sqrt(dx * dx + dy * dy), speed),
                               RepulsionStep(dy, Sqrt(dx * dx + dy * dy), speed))

RECURSIVE RepelFrom(_, _, _)
\* The visits in the order of the two nested forEach loops; k counts them.
RepelFrom(ns, k, speed) ==
    LET n == Len(ns) IN
    IF k >= n * n THEN ns
    ELSE LET a == (k \div n) + 1
             b == (k % n) + 1
         IN  RepelFrom(IF a = b THEN ns ELSE RepelPair(ns, a, b, speed), k + 1, speed)

applyRepulsionForces(ns, speed) == RepelFrom(ns, 0, speed)

\* --------------------------------------------------- applyAttractionForces
FartherThan(dx, dy, lim) ==
    Abs(dx) > lim \/ Abs(dy) > lim \/ dx * dx + dy * dy > lim * lim

\* d / distance in steps of 1 / trigUnit.
Ratio(d, distance) ==
    LET s == distance \div 100000 + 1
    IN  RoundDiv((d \div s) * trigUnit, Max2(distance \div s, 1))

\* The node and the target each move by the whole excess distance.
AttractionStepFullExcess(ns, i, t, dx, dy, distance) ==
    Displace(ns, i, t,
             MulDiv(distance - minAttractionDistance * Unit, Ratio(dx, distance), trigUnit),
             MulDiv(distance - minAttractionDistance * Unit, Ratio(dy, distance), trigUnit))

\* force = attractionForce * (distance - minAttractionDistance), along
\* (dx, dy) / distance: the node moves by it, the target against it.
AttractionStep(ns, i, t, dx, dy, distance) ==
    Displace(ns, i, t,
             MulDiv(MulDiv(distance - minAttractionDistance * Unit,
                           attractionForcePerMille, 1000),
                    Ratio(dx, distance), trigUnit),
             MulDiv(MulDiv(distance - minAttractionDistance * Unit,
                           attractionForcePerMille, 1000),
                    Ratio(dy, distance), trigUnit))

\* One edge of one node.
AttractEdge(ns, i, edgeTargetNodeId) ==
    LET t == FindNode(ns, edgeTargetNodeId)
        M == minAttractionDistance * Unit
    IN  IF t = 0 THEN ns
        ELSE IF ~IsDefined(ns[t].x) \/ ~IsDefined(ns[t].y)
                \/ ~IsDefined(ns[i].x) \/ ~IsDefined(ns[i].y)
        THEN ns
        ELSE IF ~HasXY(ns[t]) \/ ~HasXY(ns[i])
        THEN ns   \* distance is NaN (an infinite x comes with a NaN y)
        ELSE LET dx == ns[t].x.v - ns[i].x.v
                 dy == ns[t].y.v - ns[i].y.v
             IN  IF ~FartherThan(dx, dy, M) THEN ns
                 ELSE AttractionStep(ns, i, t, dx, dy, Hypot(dx, dy))

RECURSIVE AttractEdges(_, _, _)
AttractEdges(ns, i, k) ==
    IF k > Len(ns[i].edges) THEN ns
    ELSE AttractEdges(AttractEdge(ns, i, ns[i].edges[k]), i, k + 1)

RECURSIVE AttractFrom(_, _)
AttractFrom(ns, i) ==
    IF i > Len(ns) THEN ns ELSE AttractFrom(AttractEdges(ns, i, 1), i + 1)

applyAttractionForces(ns) == AttractFrom(ns, 1)

\* ------------------------------------------------------- applySpringForces
\* A spring step that, once it has moved the node, forgets the node's target.
SpringNodeForgetsTarget(n) ==
    IF ~IsDefined(n.targetX) \/ ~IsDefined(n.targetY) THEN n
    ELSE IF ~IsDefined(n.x) \/ ~IsDefined(n.y) THEN n
    ELSE [n EXCEPT !.x = JsAdd(n.x, JsScale(JsSub(n.targetX, n.x), springForcePerMille, 1000)),
                   !.y = JsAdd(n.y, JsScale(JsSub(n.targetY, n.y), springForcePerMille, 1000)),
                   !.targetX = Undefined, !.targetY = Undefined]

SpringNode(n) ==
    IF ~IsDefined(n.targetX) \/ ~IsDefined(n.targetY) THEN n
    ELSE IF ~IsDefined(n.x) \/ ~IsDefined(n.y) THEN n
    ELSE [n EXCEPT !.x = JsAdd(n.x, JsScale(JsSub(n.targetX, n.x), springForcePerMille, 1000)),
                   !.y = JsAdd(n.y, JsScale(JsSub(n.targetY, n.y), springForcePerMille, 1000))]

applySpringForces(ns) == [i \in 1..Len(ns) |-> SpringNode(ns[i])]

\* ------------------------------------------------------------ environment
\* canvasElement.getBoundingClientRect(): where the canvas sits in the page.
rectLeft == 8
rectTop == 8

\* The component's surroundings, fixed for one run: the node list the caller
\* passes, window.devicePixelRatio, whether getContext("2d") gives a context,
\* and whether the caller's renderNode may throw.
U == Undefined
PairNodes == << MkNode("a", U, U, U, U, <<"b">>), MkNode("b", U, U, U, U, <<>>) >>
CycleNodes == << MkNode("a", U, U, U, U, <<"b">>), MkNode("b", U, U, U, U, <<"a">>),
                 MkNode("c", U, U, U, U, <<>>) >>
PresetNodes == << MkNode("p", Fin(0), Fin(100 * Unit), Fin(200 * Unit), Fin(150 * Unit), <<>>),
                  MkNode("q", Fin(60 * Unit), Fin(100 * Unit), U, U, <<"zz">>) >>

Configs ==
    { [nodes |-> PairNodes, devicePixelRatio |-> 1, hasContext |-> TRUE, renderNodeThrows |-> FALSE],
      [nodes |-> CycleNodes, devicePixelRatio |-> 1, hasContext |-> TRUE, renderNodeThrows |-> FALSE],
      [nodes |-> PresetNodes, devicePixelRatio |-> 2, hasContext |-> TRUE, renderNodeThrows |-> TRUE],
      [nodes |-> PairNodes, devicePixelRatio |-> 1, hasContext |-> FALSE, renderNodeThrows |-> FALSE] }

\* Displayed sizes of the canvas's parent (clientWidth, clientHeight).
Sizes == { [w |-> 0, h |-> 0], [w |-> 400, h |-> 300] }

\* Pointer positions (clientX, clientY) that are not aimed at a node.
FixedPoints == { [x |-> rectLeft, y |-> rectTop + 40],
                 [x |-> rectLeft + 300, y |-> rectTop + 250] }
\* Two-finger touches.
TouchPairs == { << [x |-> 100, y |-> 100], [x |-> 100, y |-> 200] >>,
                << [x |-> 100, y |-> 100], [x |-> 400, y |-> 500] >> }
WheelDeltas == { -5000, 100, 5000 }

\* ------------------------------------------------------------------ state
\* ------------------------------------------------- animationSpeed, a double
\* animationSpeedDecreaseRate is the double nearest to 0.1, not 0.1.  With
\* Q = 112589990684262, 2^50 = 10 * Q + 4, and that double is
\* (Q + 13/32) * 2^-50.  A speed is held as steps * Q + units, counted in
\* 2^-50: steps is the speed in steps of 1/speedUnit, which is what the force
\* steps compute with, and units is a small integer.  25 is 250 * Q + 100,
\* 5 is 50 * Q + 20, 16 is 160 * Q + 64 and 8 is 80 * Q + 32.  Every double
\* in [4, 32) is a whole number of 2^-50.
Double(steps) == [steps |-> steps, units |-> (4 * steps) \div speedUnit]

\* The spacing of the doubles around (t * Q + m + 19/32) * 2^-50, in 2^-50:
\* 4 in [16, 32), 2 in [8, 16), 1 in [4, 8).
UlpUnits(t, m) ==
    IF t > 160 \/ (t = 160 /\ m >= 64) THEN 4
    ELSE IF t > 80 \/ (t = 80 /\ m >= 32) THEN 2
    ELSE 1

\* speed - animationSpeedDecreaseRate: the exact difference is
\* (steps - 1) * Q + (units - 1) + 19/32, rounded to the nearest double
\* (Q is 2 modulo 4, and 19/32 is never a tie).
SubtractRate(speed) ==
    LET t == speed.steps - animationSpeedDecreaseRate
        m == speed.units - 1
        u == UlpUnits(t, m)
        r == (t * 2 + m) % u
    IN  [steps |-> t,
         units |-> IF u = 1 THEN m + 1
                   ELSE IF u = 2 THEN (IF r = 0 THEN m ELSE m + 1)
                   ELSE IF r = 0 THEN m
                   ELSE IF r = 1 THEN m - 1
                   ELSE IF r = 2 THEN m + 2
                   ELSE m + 1]

\* a > b on two speeds.
SpeedAbove(a, b) == a.steps > b.steps \/ (a.steps = b.steps /\ a.units > b.units)

VARIABLES
    config,             \* props and browser facts (see Configs)
    phase,              \* "created", "rendered", "mounted", "disposed"
    nodes,              \* state().nodes
    nodeDragging,       \* state().nodeDragging
    isPanning,          \* state().isPanning
    panOffset,          \* state().panOffset
    scale,              \* state().scale
    lastPinchDistance,  \* state().lastPinchDistance
    canvas,             \* canvasElement / canvasContext: mounted, ctx, width, height
    animationSpeed,
    animationFrameId,   \* 0 is null
    pendingFrames,      \* frame requests the browser holds
    timerActive,        \* the setInterval of beginAnimationSpeedThrottling is live
    listeners,          \* registered event listeners
    resizeObserver,     \* "none", "observing", "disconnected"
    count,              \* inputs, frames and timer ticks so far
    lastOp,             \* the handler that ran last
    event,              \* the event the last handler was called with
    notes,              \* what the last handler's force passes did
    viewer              \* ThreeDimensionModelViewer, a component of its own

vars == << config, phase, nodes, nodeDragging, isPanning, panOffset, scale,
           lastPinchDistance, canvas, animationSpeed, animationFrameId,
           pendingFrames, timerActive, listeners, resizeObserver, count,
           lastOp, event, notes, viewer >>

NullDrag == [null |-> TRUE, id |-> "", x |-> 0, y |-> 0]
Drag(id, x, y) == [null |-> FALSE, id |-> id, x |-> x, y |-> y]
NullDistance == [null |-> TRUE, v |-> 0]
Distance(d) == [null |-> FALSE, v |-> d]

\* What a handler reads of its event: clientX / clientY of the pointer or of
\* touches[0], the two touches of a pinch, deltaY of a wheel event.
NoEvent == [clientX |-> 0, clientY |-> 0, touches |-> << >>, deltaY |-> 0]
PointerEvent(p) == [NoEvent EXCEPT !.clientX = p.x, !.clientY = p.y]
TouchEvent(touches) == [NoEvent EXCEPT !.touches = touches]
WheelEvent(deltaY) == [NoEvent EXCEPT !.deltaY = deltaY]

NoNotes == [repositioned |-> FALSE, nonNumeric |-> FALSE, passes |-> 0]

\* ---------------------------------------------------------------- drawing
\* A force step gets past its "=== undefined" guards with a coordinate that
\* is no finite number.
RepulsionReadsNonNumeric(ns) ==
    \E a, b \in 1..Len(ns) :
        /\ a # b
        /\ IsDefined(ns[a].x) /\ IsDefined(ns[a].y)
        /\ IsDefined(ns[b].x) /\ IsDefined(ns[b].y)
        /\ ~(HasXY(ns[a]) /\ HasXY(ns[b]))
AttractionReadsNonNumeric(ns) ==
    \E i \in 1..Len(ns) : \E k \in 1..Len(ns[i].edges) :
        LET t == FindNode(ns, ns[i].edges[k])
        IN  /\ t # 0
            /\ IsDefined(ns[t].x) /\ IsDefined(ns[t].y)
            /\ IsDefined(ns[i].x) /\ IsDefined(ns[i].y)
            /\ ~(HasXY(ns[t]) /\ HasXY(ns[i]))
SpringReadsNonNumeric(ns) ==
    \E i \in 1..Len(ns) :
        /\ IsDefined(ns[i].targetX) /\ IsDefined(ns[i].targetY)
        /\ IsDefined(ns[i].x) /\ IsDefined(ns[i].y)
        /\ ~HasXY(ns[i])

\* The positioning pass moved a node that had both coordinates.
Repositioned(before, after) ==
    \E i \in 1..Len(before) :
        HasXY(before[i]) /\ (after[i].x # before[i].x \/ after[i].y # before[i].y)

\* The three force steps, in the order of applyForces, each on the nodes
\* the step before it left.
AfterAttraction(repositioned, nonNumeric, attracted) ==
    [nodes |-> applySpringForces(attracted),
     repositioned |-> repositioned,
     nonNumeric |-> nonNumeric \/ SpringReadsNonNumeric(attracted),
     passes |-> 1]
AfterRepulsion(repositioned, nonNumeric, repelled) ==
    AfterAttraction(repositioned, nonNumeric \/ AttractionReadsNonNumeric(repelled),
                    applyAttractionForces(repelled))
AfterPosition(before, positioned, speed) ==
    AfterRepulsion(Repositioned(before, positioned),
                   RepulsionReadsNonNumeric(positioned),
                   applyRepulsionForces(positioned, speed))

\* applyForces, with what its passes did.
ForcePass(ns, cv, speed) ==
    LET centerX == (cv.width * Unit) \div 2
        centerY == (cv.height * Unit) \div 2
    IN  IF ~cv.mounted \/ (centerX = 0 /\ centerY = 0)
        THEN [nodes |-> ns, repositioned |-> FALSE, nonNumeric |-> FALSE, passes |-> 0]
        ELSE AfterPosition(ns, positionNodes(ns, centerX, centerY), speed)

applyForces(ns, cv, speed) == ForcePass(ns, cv, speed).nodes

\* drawGraph as far as it touches the model: without a context it returns at
\* once, otherwise it applies the forces and then paints.
drawGraph(ns, cv, speed) ==
    IF ~cv.ctx
    THEN [nodes |-> ns, repositioned |-> FALSE, nonNumeric |-> FALSE, passes |-> 0]
    ELSE ForcePass(ns, cv, speed)

\* What two runs of drawGraph did, the second on the nodes of the first.
Both(first, rest) ==
    [nodes |-> rest.nodes,
     repositioned |-> first.repositioned \/ rest.repositioned,
     nonNumeric |-> first.nonNumeric \/ rest.nonNumeric,
     passes |-> first.passes + rest.passes]

\* n invocations of drawGraph in a row.
RECURSIVE Draws(_, _, _, _)
DrawsAfter(first, n, cv, speed) == Both(first, Draws(first.nodes, n - 1, cv, speed))
Draws(ns, n, cv, speed) ==
    IF n = 0
    THEN [nodes |-> ns, repositioned |-> FALSE, nonNumeric |-> FALSE, passes |-> 0]
    ELSE DrawsAfter(drawGraph(ns, cv, speed), n, cv, speed)

NotesOf(d) == [repositioned |-> d.repositioned, nonNumeric |-> d.nonNumeric,
               passes |-> d.passes]

\* c / scale for a length c in client pixels, in coordinate steps.
ToCanvas(c, sc) == RoundDiv(c * Unit * scaleUnit, sc)

\* drawNodes reaches props.renderNode for some node: a node with coordinates
\* inside the padded viewport.
RendersSomeNode(ns, cv, sc, dpr) ==
    LET padding == ToCanvas(nodeCullPadding, sc)
        right == ToCanvas(cv.width \div dpr, sc) + padding
        bottom == ToCanvas(cv.height \div dpr, sc) + padding
    IN  \E i \in 1..Len(ns) :
            /\ HasXY(ns[i])
            /\ ns[i].x.v >= -padding /\ ns[i].x.v <= right
            /\ ns[i].y.v >= -padding /\ ns[i].y.v <= bottom

\* Whether the caller's renderNode throws in one drawGraph.
ThrowChoices(ns, cv, sc) ==
    IF config.renderNodeThrows /\ cv.ctx
       /\ RendersSomeNode(ns, cv, sc, config.devicePixelRatio)
    THEN {FALSE, TRUE} ELSE {FALSE}

\* The possible outcomes of the draws that follow a setState: the effect
\* (createEffect) re-runs drawGraph inside setState, then the handler calls
\* drawGraph itself when `explicit`.  A renderNode that throws in the
\* effect's draw leaves setState by the exception, and the handler's own
\* drawGraph is not reached.
Outcomes(once, sc, explicit) ==
    IF ~explicit THEN {once}
    ELSE {DrawsAfter(once, 2, canvas, animationSpeed.steps)}
         \cup (IF TRUE \in ThrowChoices(once.nodes, canvas, sc) THEN {once} ELSE {})
AfterSetState(ns, sc, explicit) ==
    Outcomes(drawGraph(ns, canvas, animationSpeed.steps), sc, explicit)

\* ------------------------------------------------------------- lifecycle
CanvasListeners == {"mousemove", "touchmove", "touchstart", "touchend", "mouseup", "wheel"}

\* ThreeDimensionModelViewer when its function body has run up to the JSX:
\* no three.js object yet, isLoading true, nothing scheduled.  renderer and
\* controls are "none" (undefined), "live", or "disposed" (dispose() was
\* called on the object the variable still holds); rendered counts the calls
\* of renderer.render, requested those of requestAnimationFrame.  frame is
\* << >> for undefined and << n >> for the number n.
ViewerCreated ==
    [phase |-> "created", timeout |-> FALSE, pendingFrames |-> {},
     renderer |-> "none", controls |-> "none", scene |-> FALSE, camera |-> FALSE,
     loader |-> FALSE, contentGroup |-> FALSE, loading |-> "none", isLoading |-> TRUE,
     observer |-> "none", frame |-> << 0 >>, enableInitialAnimation |-> TRUE,
     rendered |-> 0, requested |-> 0, lastOp |-> "init"]

\* The component as constructed from props and browser facts cfg.
Constructed(cfg) ==
    /\ config = cfg
    /\ phase = "created"
    /\ nodes = config.nodes
    /\ nodeDragging = NullDrag
    /\ isPanning = FALSE
    /\ panOffset = [x |-> 0, y |-> 0]
    /\ scale = initialScale
    /\ lastPinchDistance = NullDistance
    /\ canvas = [mounted |-> FALSE, ctx |-> FALSE, width |-> 0, height |-> 0]
    /\ animationSpeed = Double(initialAnimationSpeed)
    /\ animationFrameId = 0
    /\ pendingFrames = {}
    /\ timerActive = FALSE
    /\ listeners = {}
    /\ resizeObserver = "none"
    /\ count = [inputs |-> 0, frames |-> 0, timers |-> 0]
    /\ lastOp = "init"
    /\ event = NoEvent
    /\ notes = NoNotes
    /\ viewer = ViewerCreated

Init == \E cfg \in Configs : Constructed(cfg)

\* resizeCanvas up to its drawGraph: the backing store takes the parent's
\* displayed size times the device pixel ratio.
Resized(cv, size) ==
    [cv EXCEPT !.width = size.w * config.devicePixelRatio,
               !.height = size.h * config.devicePixelRatio]

\* The listeners onCanvasMount registers.
RegisteredOnCanvasMount == CanvasListeners

\* ref={onCanvasMount}: runs while the component renders.
onCanvasMount(size) ==
    /\ phase = "created"
    /\ canvas' = Resized([mounted |-> TRUE, ctx |-> config.hasContext,
                          width |-> 0, height |-> 0], size)
    /\ \E d \in {drawGraph(nodes, canvas', animationSpeed.steps)} :
         nodes' = d.nodes /\ notes' = NotesOf(d)
    /\ listeners' = listeners \cup RegisteredOnCanvasMount
    /\ phase' = "rendered"
    /\ lastOp' = "onCanvasMount"
    /\ event' = NoEvent
    /\ UNCHANGED << viewer, config, nodeDragging, isPanning, panOffset, scale, lastPinchDistance,
                    animationSpeed, animationFrameId, pendingFrames, timerActive,
                    resizeObserver, count >>

\* a < b on JavaScript numbers.
JsLess(a, b) ==
    IF a.k \in {"nan", "undef"} \/ b.k \in {"nan", "undef"} THEN FALSE
    ELSE IF a.k = "inf" THEN a.v < 0 /\ ~(b.k = "inf" /\ b.v < 0)
    ELSE IF b.k = "inf" THEN b.v > 0
    ELSE a.v < b.v

RECURSIVE FoldMin(_, _, _)
FoldMin(vals, k, acc) ==
    IF k > Len(vals) THEN acc
    ELSE FoldMin(vals, k + 1, IF JsLess(vals[k], acc) THEN vals[k] ELSE acc)
RECURSIVE FoldMax(_, _, _)
FoldMax(vals, k, acc) ==
    IF k > Len(vals) THEN acc
    ELSE FoldMax(vals, k + 1, IF JsLess(acc, vals[k]) THEN vals[k] ELSE acc)

JsHalf(a) == IF a.k = "fin" THEN Fin(RoundDiv(a.v, 2)) ELSE IF a.k = "inf" THEN a ELSE NaN

\* centerNodesOnCanvas up to its drawGraph: the nodes it hands to setState.
\* `moved` is FALSE on the early returns.
centerNodesOnCanvas(ns, cv) ==
    LET positionedNodes == SelectSeq(ns, LAMBDA n : IsDefined(n.x) /\ IsDefined(n.y))
        xs == [i \in 1..Len(positionedNodes) |-> positionedNodes[i].x]
        ys == [i \in 1..Len(positionedNodes) |-> positionedNodes[i].y]
        nodesCenterX == JsHalf(JsAdd(FoldMin(xs, 1, PosInf), FoldMax(xs, 1, NegInf)))
        nodesCenterY == JsHalf(JsAdd(FoldMin(ys, 1, PosInf), FoldMax(ys, 1, NegInf)))
        canvasCenterX == Fin((cv.width * Unit) \div (config.devicePixelRatio * 2))
        canvasCenterY == Fin((cv.height * Unit) \div (config.devicePixelRatio * 2))
        offsetX == JsSub(canvasCenterX, nodesCenterX)
        offsetY == JsSub(canvasCenterY, nodesCenterY)
    IN  IF ~cv.mounted \/ Len(ns) = 0 \/ Len(positionedNodes) = 0
        THEN [moved |-> FALSE, nodes |-> ns]
        ELSE [moved |-> TRUE,
              nodes |-> [i \in 1..Len(ns) |->
                           [ns[i] EXCEPT
                              !.x = IF IsDefined(ns[i].x) THEN JsAdd(ns[i].x, offsetX) ELSE ns[i].x,
                              !.y = IF IsDefined(ns[i].y) THEN JsAdd(ns[i].y, offsetY) ELSE ns[i].y]]]

\* onMount, then the first run of the effect: initializeCanvas (resizeCanvas,
\* startAnimationLoop), beginAnimationSpeedThrottling, the window resize
\* listener, observeContainerResize, centerNodesOnCanvas, and the effect's
\* drawGraph.  The effect has not run before centerNodesOnCanvas sets the
\* state, so that setState re-runs nothing.  The caller's renderNode is taken
\* not to throw while the component mounts.
onMount(size) ==
    /\ phase = "rendered"
    /\ canvas' = Resized(canvas, size)
    /\ \E d1 \in {drawGraph(nodes, canvas', animationSpeed.steps)} :
       \E centered \in {centerNodesOnCanvas(d1.nodes, canvas')} :
       \E d2 \in {Draws(centered.nodes, IF centered.moved THEN 2 ELSE 1,
                        canvas', animationSpeed.steps)} :
         nodes' = d2.nodes /\ notes' = NotesOf(Both(d1, d2))
    /\ animationFrameId' = 1
    /\ pendingFrames' = pendingFrames \cup {1}
    /\ timerActive' = TRUE
    /\ listeners' = listeners \cup {"resize"}
    /\ resizeObserver' = "observing"
    /\ phase' = "mounted"
    /\ lastOp' = "onMount"
    /\ event' = NoEvent
    /\ UNCHANGED << viewer, config, nodeDragging, isPanning, panOffset, scale, lastPinchDistance,
                    animationSpeed, count >>

\* onCleanup without its window.removeEventListener("resize", ...).
RemovedWithoutResize == CanvasListeners
\* The listeners onCleanup removes.
RemovedOnCleanup == CanvasListeners \cup {"resize"}
\* onCleanup without its cancelAnimationFrame.
FramesNotCancelled == pendingFrames
\* The frame requests left after onCleanup's cancelAnimationFrame.
FramesAfterCleanup == IF animationFrameId # 0 THEN pendingFrames \ {animationFrameId}
                      ELSE pendingFrames

onCleanup ==
    /\ phase = "mounted"
    /\ listeners' = listeners \ RemovedOnCleanup
    /\ pendingFrames' = FramesAfterCleanup
    /\ resizeObserver' = IF resizeObserver = "none" THEN "none" ELSE "disconnected"
    /\ phase' = "disposed"
    /\ lastOp' = "onCleanup"
    /\ event' = NoEvent
    /\ notes' = NoNotes
    /\ UNCHANGED << viewer, config, nodes, nodeDragging, isPanning, panOffset, scale,
                    lastPinchDistance, canvas, animationSpeed, animationFrameId,
                    timerActive, count >>

\* The frame request animate leaves behind: none when drawGraph threw.
NextRequest(threw) == IF threw THEN {} ELSE {animationFrameId + 1}

\* The requestAnimationFrame callback of startAnimationLoop.
animate ==
    /\ count.frames < MaxFrames
    /\ \E h \in pendingFrames :
         \E d \in {drawGraph(nodes, canvas, animationSpeed.steps)} :
             \E threw \in ThrowChoices(d.nodes, canvas, scale) :
               /\ nodes' = d.nodes
               /\ notes' = NotesOf(d)
               /\ pendingFrames' = (pendingFrames \ {h}) \cup NextRequest(threw)
               /\ animationFrameId' = IF threw THEN animationFrameId ELSE animationFrameId + 1
    /\ count' = [count EXCEPT !.frames = @ + 1]
    /\ lastOp' = "animate"
    /\ event' = NoEvent
    /\ UNCHANGED << viewer, config, phase, nodeDragging, isPanning, panOffset, scale,
                    lastPinchDistance, canvas, animationSpeed, timerActive, listeners,
                    resizeObserver >>

\* The setInterval callback of beginAnimationSpeedThrottling.
decreaseAnimationSpeed ==
    /\ timerActive
    /\ count.timers < MaxTimerTicks
    /\ IF SpeedAbove(animationSpeed, Double(minAnimationSpeed))
       THEN /\ animationSpeed' = SubtractRate(animationSpeed)
            /\ timerActive' = timerActive
       ELSE /\ animationSpeed' = animationSpeed
            /\ timerActive' = FALSE
    /\ count' = [count EXCEPT !.timers = @ + 1]
    /\ lastOp' = "decreaseAnimationSpeed"
    /\ event' = NoEvent
    /\ notes' = NoNotes
    /\ UNCHANGED << viewer, config, phase, nodes, nodeDragging, isPanning, panOffset, scale,
                    lastPinchDistance, canvas, animationFrameId, pendingFrames, listeners,
                    resizeObserver >>

\* window "resize" or the ResizeObserver callback: resizeCanvas.
resizeCanvas(size) ==
    /\ "resize" \in listeners \/ resizeObserver = "observing"
    /\ count.inputs < MaxInputs
    /\ canvas.mounted
    /\ canvas' = Resized(canvas, size)
    /\ \E d \in {drawGraph(nodes, canvas', animationSpeed.steps)} :
         nodes' = d.nodes /\ notes' = NotesOf(d)
    /\ count' = [count EXCEPT !.inputs = @ + 1]
    /\ lastOp' = "resizeCanvas"
    /\ event' = NoEvent
    /\ UNCHANGED << viewer, config, phase, nodeDragging, isPanning, panOffset, scale,
                    lastPinchDistance, animationSpeed, animationFrameId, pendingFrames,
                    timerActive, listeners, resizeObserver >>

\* ----------------------------------------------------------- interaction
\* Pointer positions: the fixed ones, and the screen position of each node
\* that has coordinates near the canvas.
ScreenPoint(n, sc) ==
    [x |-> rectLeft + RoundDiv(n.x.v * sc, Unit * scaleUnit),
     y |-> rectTop + RoundDiv(n.y.v * sc, Unit * scaleUnit)]
PointerChoices ==
    FixedPoints \cup
    { ScreenPoint(nodes[i], scale) :
        i \in {j \in 1..Len(nodes) : HasXY(nodes[j]) /\ Abs(nodes[j].x.v) <= 1000 * Unit
                                                    /\ Abs(nodes[j].y.v) <= 1000 * Unit} }

\* The hit test on the raw client offset, without the division by scale.
HitNodeUnscaled(ns, p, sc) ==
    LET hits == {i \in 1..Len(ns) : NearPoint(ns[i], (p.x - rectLeft) * Unit,
                                               (p.y - rectTop) * Unit, nodeRadius * Unit)}
    IN  IF hits = {} THEN 0 ELSE CHOOSE i \in hits : \A j \in hits : i <= j
\* memoizedNodes().find((node) => Math.hypot(node.x - x, node.y - y) <
\* nodeRadius) at the pointer's zoom-adjusted canvas coordinate: the first
\* node hit, or 0.
HitNode(ns, p, sc) ==
    LET x == ToCanvas(p.x - rectLeft, sc)
        y == ToCanvas(p.y - rectTop, sc)
        hits == {i \in 1..Len(ns) : NearPoint(ns[i], x, y, nodeRadius * Unit)}
    IN  IF hits = {} THEN 0 ELSE CHOOSE i \in hits : \A j \in hits : i <= j

\* The state a pointer-down leaves (mouse: handleNodeDraggingOnMouseDown /
\* handleCanvasPanningOnMouseDown; touch: the same two setState calls).
PointerDown(p) ==
    LET hit == HitNode(nodes, p, scale)
    IN  IF hit # 0
        THEN /\ nodeDragging' = Drag(nodes[hit].id, ToCanvas(p.x, scale), ToCanvas(p.y, scale))
             /\ UNCHANGED << isPanning, panOffset >>
        ELSE /\ isPanning' = TRUE
             /\ panOffset' = p
             /\ UNCHANGED nodeDragging

\* The nodes handleDraggingOnMouseMove hands to setState.
handleDraggingOnMouseMove(ns, id, newX, newY) ==
    [i \in 1..Len(ns) |->
        IF ns[i].id = id THEN [ns[i] EXCEPT !.x = Fin(newX), !.y = Fin(newY)] ELSE ns[i]]

\* The nodes handleCanvasPanningOnMouseMove hands to setState: every node,
\* x: node.x + distanceX / scale, y: node.y + distanceY / scale.
handleCanvasPanningOnMouseMove(ns, distanceX, distanceY, sc) ==
    [i \in 1..Len(ns) |->
        [ns[i] EXCEPT !.x = JsAdd(ns[i].x, Fin(ToCanvas(distanceX, sc))),
                      !.y = JsAdd(ns[i].y, Fin(ToCanvas(distanceY, sc)))]]

\* The canvas's onMouseDown (hit test) and onMouseDown.
onMouseDown(p) ==
    /\ phase = "mounted"
    /\ count.inputs < MaxInputs
    /\ PointerDown(p)
    /\ \E d \in AfterSetState(nodes, scale, FALSE) :
         nodes' = d.nodes /\ notes' = NotesOf(d)
    /\ count' = [count EXCEPT !.inputs = @ + 1]
    /\ lastOp' = "onMouseDown"
    /\ event' = PointerEvent(p)
    /\ UNCHANGED << viewer, config, phase, scale, lastPinchDistance, canvas, animationSpeed,
                    animationFrameId, pendingFrames, timerActive, listeners, resizeObserver >>

\* A pointer move at p while dragging or panning (mouse, or one finger).
PointerMove(p) ==
    IF ~nodeDragging.null /\ nodeDragging.id # ""
    THEN LET newX == ToCanvas(p.x - rectLeft, scale)
             newY == ToCanvas(p.y - rectTop, scale)
         IN  /\ \E d \in AfterSetState(
                           handleDraggingOnMouseMove(nodes, nodeDragging.id, newX, newY),
                           scale, TRUE) :
                  nodes' = d.nodes /\ notes' = NotesOf(d)
             /\ nodeDragging' = Drag(nodeDragging.id, newX, newY)
             /\ UNCHANGED << isPanning, panOffset >>
    ELSE /\ isPanning
         /\ \E d \in AfterSetState(
                       handleCanvasPanningOnMouseMove(nodes, p.x - panOffset.x,
                                                      p.y - panOffset.y, scale),
                       scale, TRUE) :
              nodes' = d.nodes /\ notes' = NotesOf(d)
         /\ panOffset' = p
         /\ UNCHANGED << nodeDragging, isPanning >>

\* onMouseMove; with nothing dragged and no pan it returns without a write.
onMouseMove(p) ==
    /\ "mousemove" \in listeners
    /\ phase = "mounted"
    /\ count.inputs < MaxInputs
    /\ PointerMove(p)
    /\ count' = [count EXCEPT !.inputs = @ + 1]
    /\ lastOp' = "onMouseMove"
    /\ event' = PointerEvent(p)
    /\ UNCHANGED << viewer, config, phase, scale, lastPinchDistance, canvas, animationSpeed,
                    animationFrameId, pendingFrames, timerActive, listeners, resizeObserver >>

\* onMouseUp resetting the pinch distance as onTouchEnd does.
PinchResetOnMouseUp == NullDistance
\* The pinch distance onMouseUp leaves.
PinchAfterMouseUp == lastPinchDistance

onMouseUp ==
    /\ "mouseup" \in listeners
    /\ phase = "mounted"
    /\ count.inputs < MaxInputs
    /\ nodeDragging' = NullDrag
    /\ isPanning' = FALSE
    /\ lastPinchDistance' = PinchAfterMouseUp
    /\ \E d \in AfterSetState(nodes, scale, FALSE) :
         nodes' = d.nodes /\ notes' = NotesOf(d)
    /\ count' = [count EXCEPT !.inputs = @ + 1]
    /\ lastOp' = "onMouseUp"
    /\ event' = NoEvent
    /\ UNCHANGED << viewer, config, phase, panOffset, scale, canvas, animationSpeed,
                    animationFrameId, pendingFrames, timerActive, listeners, resizeObserver >>

\* The clamp without its Math.max(..., canvasScaleMin).
ClampScaleNoFloor(s) == Min2(s, canvasScaleMax)
\* Math.min(Math.max(s, canvasScaleMin), canvasScaleMax)
ClampScale(s) == Min2(Max2(s, canvasScaleMin), canvasScaleMax)

\* A wheel zoom by one fixed step in the direction of the delta.
WheelScaleBySign(sc, deltaY) == ClampScale(sc - Sign(deltaY) * wheelStep)
\* scaleAmount = -event.deltaY * canvasScaleStep; scale + scaleAmount, clamped.
WheelScale(sc, deltaY) == ClampScale(sc - deltaY * wheelStep)

onWheel(deltaY) ==
    /\ "wheel" \in listeners
    /\ phase = "mounted"
    /\ count.inputs < MaxInputs
    /\ scale' = WheelScale(scale, deltaY)
    /\ \E d \in AfterSetState(nodes, scale', TRUE) :
         nodes' = d.nodes /\ notes' = NotesOf(d)
    /\ count' = [count EXCEPT !.inputs = @ + 1]
    /\ lastOp' = "onWheel"
    /\ event' = WheelEvent(deltaY)
    /\ UNCHANGED << viewer, config, phase, nodeDragging, isPanning, panOffset, lastPinchDistance,
                    canvas, animationSpeed, animationFrameId, pendingFrames, timerActive,
                    listeners, resizeObserver >>

\* getPinchDistance
getPinchDistance(touches) ==
    Sqrt((touches[1].x - touches[2].x) * (touches[1].x - touches[2].x)
         + (touches[1].y - touches[2].y) * (touches[1].y - touches[2].y))

\* onTouchStart with two touches: the pinch begins.
onTouchStartPinch(touches) ==
    /\ "touchstart" \in listeners
    /\ phase = "mounted"
    /\ count.inputs < MaxInputs
    /\ lastPinchDistance' = Distance(getPinchDistance(touches))
    /\ \E d \in AfterSetState(nodes, scale, FALSE) :
         nodes' = d.nodes /\ notes' = NotesOf(d)
    /\ count' = [count EXCEPT !.inputs = @ + 1]
    /\ lastOp' = "onTouchStart2"
    /\ event' = TouchEvent(touches)
    /\ UNCHANGED << viewer, config, phase, nodeDragging, isPanning, panOffset, scale, canvas,
                    animationSpeed, animationFrameId, pendingFrames, timerActive,
                    listeners, resizeObserver >>

\* onTouchStart with one touch.
onTouchStart(p) ==
    /\ "touchstart" \in listeners
    /\ phase = "mounted"
    /\ count.inputs < MaxInputs
    /\ PointerDown(p)
    /\ \E d \in AfterSetState(nodes, scale, FALSE) :
         nodes' = d.nodes /\ notes' = NotesOf(d)
    /\ count' = [count EXCEPT !.inputs = @ + 1]
    /\ lastOp' = "onTouchStart"
    /\ event' = PointerEvent(p)
    /\ UNCHANGED << viewer, config, phase, scale, lastPinchDistance, canvas, animationSpeed,
                    animationFrameId, pendingFrames, timerActive, listeners, resizeObserver >>

\* The pinch zoom without the factor 0.5 on the distance delta.
PinchScaleFullStep(sc, lastDistance, currentDistance) ==
    ClampScale(sc + (currentDistance - lastDistance) * 2 * pinchStep)
\* scaleChange = delta * canvasScaleStep * 0.5; scale + scaleChange, clamped.
PinchScale(sc, lastDistance, currentDistance) ==
    ClampScale(sc + (currentDistance - lastDistance) * pinchStep)

\* onTouchMove with two touches: handlePinchZoom.  Without a recorded
\* distance it writes nothing and draws nothing.
handlePinchZoom(touches) ==
    /\ "touchmove" \in listeners
    /\ phase = "mounted"
    /\ count.inputs < MaxInputs
    /\ IF lastPinchDistance.null
       THEN /\ notes' = NoNotes
            /\ UNCHANGED << scale, lastPinchDistance, nodes >>
       ELSE /\ scale' = PinchScale(scale, lastPinchDistance.v, getPinchDistance(touches))
            /\ lastPinchDistance' = Distance(getPinchDistance(touches))
            /\ \E d \in AfterSetState(nodes, scale', TRUE) :
                 nodes' = d.nodes /\ notes' = NotesOf(d)
    /\ count' = [count EXCEPT !.inputs = @ + 1]
    /\ lastOp' = "handlePinchZoom"
    /\ event' = TouchEvent(touches)
    /\ UNCHANGED << viewer, config, phase, nodeDragging, isPanning, panOffset, canvas,
                    animationSpeed, animationFrameId, pendingFrames, timerActive,
                    listeners, resizeObserver >>

\* onTouchMove with one touch: drag, pan, or neither; drawGraph in each case.
onTouchMove(p) ==
    /\ "touchmove" \in listeners
    /\ phase = "mounted"
    /\ count.inputs < MaxInputs
    /\ IF (~nodeDragging.null /\ nodeDragging.id # "") \/ isPanning
       THEN PointerMove(p)
       ELSE /\ \E d \in {drawGraph(nodes, canvas, animationSpeed.steps)} :
                 nodes' = d.nodes /\ notes' = NotesOf(d)
            /\ UNCHANGED << nodeDragging, isPanning, panOffset >>
    /\ count' = [count EXCEPT !.inputs = @ + 1]
    /\ lastOp' = "onTouchMove"
    /\ event' = PointerEvent(p)
    /\ UNCHANGED << viewer, config, phase, scale, lastPinchDistance, canvas, animationSpeed,
                    animationFrameId, pendingFrames, timerActive, listeners, resizeObserver >>

onTouchEnd ==
    /\ "touchend" \in listeners
    /\ phase = "mounted"
    /\ count.inputs < MaxInputs
    /\ nodeDragging' = NullDrag
    /\ isPanning' = FALSE
    /\ lastPinchDistance' = NullDistance
    /\ \E d \in AfterSetState(nodes, scale, FALSE) :
         nodes' = d.nodes /\ notes' = NotesOf(d)
    /\ count' = [count EXCEPT !.inputs = @ + 1]
    /\ lastOp' = "onTouchEnd"
    /\ event' = NoEvent
    /\ UNCHANGED << viewer, config, phase, panOffset, scale, canvas, animationSpeed,
                    animationFrameId, pendingFrames, timerActive, listeners, resizeObserver >>

\* ------------------------------------------------------------------- spec
Next ==
    \/ \E size \in Sizes : onCanvasMount(size)
    \/ \E size \in Sizes : onMount(size)
    \/ onCleanup
    \/ animate
    \/ decreaseAnimationSpeed
    \/ \E size \in Sizes : resizeCanvas(size)
    \/ \E p \in PointerChoices : onMouseDown(p)
    \/ \E p \in FixedPoints : onMouseMove(p)
    \/ onMouseUp
    \/ \E deltaY \in WheelDeltas : onWheel(deltaY)
    \/ \E touches \in TouchPairs : onTouchStartPinch(touches)
    \/ \E p \in PointerChoices : onTouchStart(p)
    \/ \E touches \in TouchPairs : handlePinchZoom(touches)
    \/ \E p \in FixedPoints : onTouchMove(p)
    \/ onTouchEnd

Spec == Init /\ [][Next]_vars

\* ----------------------------------------------------------------- claims
\* C1: the zoom scale stays within [canvasScaleMin, canvasScaleMax] in every
\* reachable state, whatever wheel events and pinch moves came before.
C1_ScaleWithinBounds == canvasScaleMin <= scale /\ scale <= canvasScaleMax
\* C1 witness: a wheel event whose delta would take the scale below the
\* minimum has been handled, and the scale sits at the minimum.
C1_WheelClampedAtMin == lastOp = "onWheel" /\ scale = canvasScaleMin

GestureCount ==
    (IF ~nodeDragging.null THEN 1 ELSE 0) + (IF isPanning THEN 1 ELSE 0)
    + (IF ~lastPinchDistance.null THEN 1 ELSE 0)
GestureStateCleared == nodeDragging.null /\ ~isPanning /\ lastPinchDistance.null

\* C2 as stated: in every reachable state at most one of (nodeDragging is
\* set), (isPanning is true), (lastPinchDistance is set) holds.
C2_AtMostOneGesture == GestureCount <= 1

\* C3 as stated: after a mouse pointer-up or a touch-end, nodeDragging is
\* null, isPanning is false and lastPinchDistance is null.
C3_AllClearedAfterPointerUp ==
    lastOp \in {"onMouseUp", "onTouchEnd"} => GestureStateCleared
\* C3 amended: a touch-end clears nodeDragging, isPanning and
\* lastPinchDistance; a mouse pointer-up clears nodeDragging and isPanning
\* and leaves lastPinchDistance as it was.
C3_PointerUpClears ==
    [][/\ lastOp' = "onTouchEnd" => GestureStateCleared'
       /\ lastOp' = "onMouseUp" =>
            /\ nodeDragging'.null /\ ~isPanning'
            /\ lastPinchDistance' = lastPinchDistance]_vars
\* C3 witness: a mouse pointer-up has been handled while a pinch distance was
\* recorded, and the pinch distance is still there.
C3_PinchSurvivesMouseUp == lastOp = "onMouseUp" /\ ~lastPinchDistance.null

\* C4 as stated: a drawGraph that follows another one with no input event in
\* between (here: two animation ticks in a row) leaves every node's position
\* as the first one left it.
C4_RedrawKeepsPositions ==
    [][(lastOp = "animate" /\ lastOp' = "animate") => nodes' = nodes]_vars

\* C5: after disposal no animation frame request is pending and the
\* animation tick has not run since the disposal.
C5_NoFrameAfterDisposal ==
    phase = "disposed" => (pendingFrames = {} /\ lastOp # "animate")
\* C5 witness: the component was disposed after the loop had re-scheduled
\* itself at least once, and a timer tick came after the disposal.
C5_DisposedAfterTicks ==
    phase = "disposed" /\ animationFrameId > 1 /\ lastOp = "decreaseAnimationSpeed"

\* C6: after disposal no listener is registered and the resize observer is
\* disconnected.
C6_NoListenerAfterDisposal ==
    phase = "disposed" => (listeners = {} /\ resizeObserver = "disconnected")
\* C6 witness: onCleanup has just run on a component whose mount had
\* registered the listeners and started the observer.
C6_JustDisposed ==
    lastOp = "onCleanup" /\ listeners = {} /\ resizeObserver = "disconnected"

\* C7 as stated: between mount and disposal every execution of the animation
\* tick leaves exactly one next frame request pending, also when the caller's
\* renderNode throws.
C7_TickLeavesOneRequest ==
    (phase = "mounted" /\ lastOp = "animate") => Cardinality(pendingFrames) = 1

\* C8 as stated: a positioning pass never changes the coordinates of a node
\* that already has both x and y, whatever their values.
C8_PlacedNodesKeepPosition == ~notes.repositioned

\* C9 as stated: after a positioning pass on a canvas of non-zero size every
\* node has defined x and y, and the two nodes of a -> b are at distinct
\* positions after the first pass.
C9_AllNodesPositioned ==
    notes.passes > 0 =>
        /\ \A i \in 1..Len(nodes) : IsDefined(nodes[i].x) /\ IsDefined(nodes[i].y)
        /\ (config.nodes = PairNodes /\ lastOp = "onCanvasMount") =>
               (nodes[1].x # nodes[2].x \/ nodes[1].y # nodes[2].y)

\* C10 as stated: no force step reads or updates the coordinates of a node
\* without a defined numeric x and y, in any reachable state.
C10_ForcesOnNumericOnly == ~notes.nonNumeric

\* The nodes with finite coordinates at Euclidean distance below nodeRadius
\* from the canvas coordinate ((clientX - rect.left) / sc, (clientY -
\* rect.top) / sc).
NodesUnderPointer(ns, e, sc) ==
    {i \in 1..Len(ns) :
        /\ IsFin(ns[i].x) /\ IsFin(ns[i].y)
        /\ Abs(ns[i].x.v - ToCanvas(e.clientX - rectLeft, sc)) < nodeRadius * Unit
        /\ Abs(ns[i].y.v - ToCanvas(e.clientY - rectTop, sc)) < nodeRadius * Unit
        /\ (ns[i].x.v - ToCanvas(e.clientX - rectLeft, sc)) ^ 2
           + (ns[i].y.v - ToCanvas(e.clientY - rectTop, sc)) ^ 2
             < (nodeRadius * Unit) ^ 2}

\* C11: a mouse-down or one-finger touch-start whose zoom-adjusted canvas
\* coordinate is closer than nodeRadius to some positioned node sets
\* nodeDragging with the id of such a node; one that is at nodeRadius or more
\* from every node sets isPanning and records the pointer in panOffset.
C11_PointerDownHitTest ==
    [][lastOp' \in {"onMouseDown", "onTouchStart"} =>
         IF NodesUnderPointer(nodes, event', scale) # {}
         THEN /\ ~nodeDragging'.null
              /\ \E i \in NodesUnderPointer(nodes, event', scale) :
                    nodeDragging'.id = nodes[i].id
         ELSE /\ isPanning'
              /\ panOffset' = [x |-> event'.clientX, y |-> event'.clientY]]_vars
\* C11 witness: a one-finger touch-start landed on a node and the gesture
\* state names that node.
C11_TouchStartOnNode ==
    /\ lastOp = "onTouchStart" /\ ~nodeDragging.null
    /\ \E i \in NodesUnderPointer(nodes, event, scale) : nodeDragging.id = nodes[i].id

\* C12 as stated: when a pointer-move handler returns while a node is
\* dragged, that node is at the pointer's zoom-adjusted canvas coordinate
\* ((clientX - rect.left) / scale, (clientY - rect.top) / scale), and the
\* dragged node's id is unchanged.
C12_DraggedNodeAtPointer ==
    [][(/\ lastOp' \in {"onMouseMove", "onTouchMove"}
        /\ ~nodeDragging.null /\ nodeDragging.id # "") =>
         /\ ~nodeDragging'.null /\ nodeDragging'.id = nodeDragging.id
         /\ \A i \in 1..Len(nodes') :
               nodes'[i].id = nodeDragging.id =>
                 /\ nodes'[i].x = Fin(ToCanvas(event'.clientX - rectLeft, scale))
                 /\ nodes'[i].y = Fin(ToCanvas(event'.clientY - rectTop, scale))]_vars

\* C13 as stated: when a pointer-move handler returns while panning (and no
\* node is dragged), every positioned node has moved by (pointer - last
\* pointer) / scale, and panOffset is the pointer.
C13_PanTranslatesEveryNode ==
    [][(/\ lastOp' \in {"onMouseMove", "onTouchMove"}
        /\ isPanning /\ (nodeDragging.null \/ nodeDragging.id = "")) =>
         /\ panOffset' = [x |-> event'.clientX, y |-> event'.clientY]
         /\ \A i \in 1..Len(nodes) :
               (IsFin(nodes[i].x) /\ IsFin(nodes[i].y)) =>
                 /\ nodes'[i].x = Fin(nodes[i].x.v + ToCanvas(event'.clientX - panOffset.x, scale))
                 /\ nodes'[i].y = Fin(nodes[i].y.v + ToCanvas(event'.clientY - panOffset.y, scale))]_vars

\* v limited to [canvasScaleMin, canvasScaleMax].
WithinZoomBounds(v) ==
    IF v < canvasScaleMin THEN canvasScaleMin
    ELSE IF v > canvasScaleMax THEN canvasScaleMax ELSE v
GestureFields == << nodeDragging, isPanning, panOffset, lastPinchDistance >>

\* C14 as stated: a wheel event changes scale by canvasScaleStep times the
\* sign of the wheel delta, clamped to the zoom bounds, and leaves
\* nodeDragging, isPanning, panOffset and lastPinchDistance unchanged.
C14_WheelStepBySign ==
    [][lastOp' = "onWheel" =>
         /\ scale' = WithinZoomBounds(scale - Sign(event'.deltaY) * wheelStep)
         /\ GestureFields' = GestureFields]_vars
\* C14 amended: a wheel event changes scale by -deltaY * canvasScaleStep,
\* proportional to the wheel delta, clamped to the zoom bounds, and leaves
\* nodeDragging, isPanning, panOffset and lastPinchDistance unchanged.
C14_WheelStepByDelta ==
    [][lastOp' = "onWheel" =>
         /\ scale' = WithinZoomBounds(scale - event'.deltaY * wheelStep)
         /\ GestureFields' = GestureFields]_vars
\* C14 witness: a wheel event with deltaY = 100 took the scale from 0.9 to
\* 0.8, inside the bounds, while a pan was in progress.
C14_WheelZoomedOutWhilePanning ==
    /\ lastOp = "onWheel" /\ event.deltaY = 100 /\ isPanning
    /\ scale = initialScale - 100 * wheelStep

\* C15: a two-finger touch-start records the distance between the fingers as
\* lastPinchDistance; a two-finger touch-move with a recorded distance
\* changes scale by (current distance - recorded distance) * canvasScaleStep
\* * 0.5, clamped to the zoom bounds, and records the current distance; one
\* with no recorded distance leaves scale (and the missing record) as it was.
C15_PinchZoom ==
    [][/\ lastOp' = "onTouchStart2" =>
            /\ lastPinchDistance' = Distance(getPinchDistance(event'.touches))
            /\ scale' = scale
       /\ lastOp' = "handlePinchZoom" =>
            IF lastPinchDistance.null
            THEN scale' = scale /\ lastPinchDistance'.null
            ELSE /\ scale' = WithinZoomBounds(
                               scale + (getPinchDistance(event'.touches)
                                        - lastPinchDistance.v) * pinchStep)
                 /\ lastPinchDistance' = Distance(getPinchDistance(event'.touches))]_vars
\* C15 witness: a pinch that began with the fingers 100 apart moved them 500
\* apart, and the scale rose from 0.9 by 400 * 0.0005 = 0.2.
C15_PinchedOut ==
    /\ lastOp = "handlePinchZoom" /\ lastPinchDistance = Distance(500)
    /\ scale = initialScale + 400 * pinchStep

\* ------------------------------------------------- the repulsion step alone
\* Two positioned nodes A and B without edges or targets, A at one of two
\* places and B on a grid around them (on A, within the threshold, beyond
\* it), and one run of applyRepulsionForces at the initial animation speed.
RepulsionOffsets == {-70, -30, 0, 30, 70, 120}
RepulsionNodes ==
    { << MkNode("A", Fin(ax * Unit), Fin(ay * Unit), U, U, << >>),
         MkNode("B", Fin(bx * Unit), Fin(by * Unit), U, U, << >>) >> :
        ax \in {0, 50}, ay \in {0}, bx \in RepulsionOffsets, by \in RepulsionOffsets }

InitRepulsion ==
    \E ns \in RepulsionNodes :
        Constructed([nodes |-> ns, devicePixelRatio |-> 1, hasContext |-> TRUE,
                     renderNodeThrows |-> FALSE])

RepulsionPass ==
    /\ lastOp = "init"
    /\ nodes' = applyRepulsionForces(nodes, animationSpeed.steps)
    /\ lastOp' = "applyRepulsionForces"
    /\ UNCHANGED << viewer, config, phase, nodeDragging, isPanning, panOffset, scale,
                    lastPinchDistance, canvas, animationSpeed, animationFrameId,
                    pendingFrames, timerActive, listeners, resizeObserver, count,
                    event, notes >>

NextRepulsion == RepulsionPass
SpecRepulsion == InitRepulsion /\ [][NextRepulsion]_vars

\* C16: two positioned nodes at a positive distance below distanceThreshold
\* are displaced by a run of the repulsion step by opposite vectors of equal
\* size: what A gained, B lost, so their midpoint stays where it was.
C16_RepulsionSymmetric ==
    (/\ lastOp = "applyRepulsionForces"
     /\ config.nodes[1].x # config.nodes[2].x \/ config.nodes[1].y # config.nodes[2].y
     /\ (config.nodes[1].x.v - config.nodes[2].x.v) ^ 2
        + (config.nodes[1].y.v - config.nodes[2].y.v) ^ 2 < (distanceThreshold * Unit) ^ 2) =>
        /\ IsFin(nodes[1].x) /\ IsFin(nodes[1].y) /\ IsFin(nodes[2].x) /\ IsFin(nodes[2].y)
        /\ nodes[1].x.v - config.nodes[1].x.v = -(nodes[2].x.v - config.nodes[2].x.v)
        /\ nodes[1].y.v - config.nodes[1].y.v = -(nodes[2].y.v - config.nodes[2].y.v)
\* C16 witness: A at (0, 0) and B at (30, -30) have been pushed apart, A to
\* the upper left and B to the lower right by as much.
C16_PushedApart ==
    /\ lastOp = "applyRepulsionForces"
    /\ config.nodes[1].x = Fin(0) /\ config.nodes[2].x = Fin(30 * Unit)
    /\ config.nodes[2].y = Fin(-30 * Unit)
    /\ nodes[1].x.v < 0 /\ nodes[1].y.v > 0
    /\ nodes[2].x.v = 30 * Unit - nodes[1].x.v

\* ------------------------------------------------ the animation loop alone
\* The graph a -> b with a 400x300 parent at device pixel ratio 1 or 2: mount,
\* then animation ticks only, no input events, no timer callbacks (the
\* animation speed stays at its initial value).  Ticks are not counted here;
\* the frame handle alternates between two values, which keeps the handle
\* of the pending request distinct from the one before it.
TickConfig(ratio) == [nodes |-> PairNodes, devicePixelRatio |-> ratio,
                      hasContext |-> TRUE, renderNodeThrows |-> FALSE]
TickSize == [w |-> 400, h |-> 300]

InitTicks == \E ratio \in {1, 2} : Constructed(TickConfig(ratio))

Tick ==
    /\ phase = "mounted"
    /\ animationFrameId \in pendingFrames
    /\ \E d \in {drawGraph(nodes, canvas, animationSpeed.steps)} :
         nodes' = d.nodes /\ notes' = NotesOf(d)
    /\ animationFrameId' = IF animationFrameId = 1 THEN 2 ELSE 1
    /\ pendingFrames' = {animationFrameId'}
    /\ lastOp' = "animate"
    /\ event' = NoEvent
    /\ UNCHANGED << viewer, config, phase, nodeDragging, isPanning, panOffset, scale,
                    lastPinchDistance, canvas, animationSpeed, timerActive, listeners,
                    resizeObserver, count >>

NextTicks ==
    \/ onCanvasMount(TickSize)
    \/ onMount(TickSize)
    \/ Tick
\* The browser runs a requested animation frame callback: a pending request
\* does not stay pending for ever.  TickDue is Tick reduced to its guard and
\* its new frame handle; among the steps of NextTicks exactly the Tick steps
\* change the handle of a mounted component, and Tick is enabled whenever
\* its guard holds.
TickDue ==
    /\ phase = "mounted"
    /\ animationFrameId \in pendingFrames
    /\ animationFrameId' = IF animationFrameId = 1 THEN 2 ELSE 1
SpecTicks == InitTicks /\ [][NextTicks]_vars /\ WF_animationFrameId(TickDue)

\* The squared distance between the first two nodes, in squared steps.
PairDistanceSquared(ns) ==
    (ns[1].x.v - ns[2].x.v) ^ 2 + (ns[1].y.v - ns[2].y.v) ^ 2


\* C17 (as stated): with the graph a -> b on a 400x300 canvas, no target
\* positions and no input events, the distance between a and b converges to
\* the minimum attraction distance 150 over successive animation ticks:
\* from some tick on it stays within ConvergenceTolerance canvas units of 150.
ConvergenceTolerance == 10
C17_ConvergesToAttractionDistance ==
    <>[](/\ HasXY(nodes[1]) /\ HasXY(nodes[2])
         /\ PairDistanceSquared(nodes)
              >= ((minAttractionDistance - ConvergenceTolerance) * Unit) ^ 2
         /\ PairDistanceSquared(nodes)
              <= ((minAttractionDistance + ConvergenceTolerance) * Unit) ^ 2)

\* C17 (amended): over successive animation ticks the distance between a
\* and b never decreases and never exceeds the minimum attraction distance
\* 150; a tick increases it while it is below the repulsion distance
\* threshold 100 and leaves both nodes where they are once it is at or above
\* that threshold, so the distance settles just above 100 and not at 150.
C17_DistanceSettlesAtThreshold ==
    [][lastOp' = "animate" =>
         /\ HasXY(nodes'[1]) /\ HasXY(nodes'[2])
         /\ PairDistanceSquared(nodes') >= PairDistanceSquared(nodes)
         /\ PairDistanceSquared(nodes') < (minAttractionDistance * Unit) ^ 2
         /\ PairDistanceSquared(nodes) < (distanceThreshold * Unit) ^ 2
              => PairDistanceSquared(nodes') > PairDistanceSquared(nodes)
         /\ PairDistanceSquared(nodes) >= (distanceThreshold * Unit) ^ 2
              => nodes' = nodes]_vars

\* C17 witness: a tick has run on a pair that has been pushed to the
\* repulsion distance threshold, still far below 150.
C17_SettledAtThreshold ==
    /\ lastOp = "animate"
    /\ HasXY(nodes[1]) /\ HasXY(nodes[2])
    /\ PairDistanceSquared(nodes) >= (distanceThreshold * Unit) ^ 2
    /\ PairDistanceSquared(nodes)
         < ((minAttractionDistance - ConvergenceTolerance) * Unit) ^ 2

\* ------------------------------------------------------ the edge culling
\* n / d >= 0 && n / d <= 1 for d # 0; a quotient of -0 passes ">= 0".
InUnitInterval(n, d) ==
    IF d > 0 THEN 0 <= n /\ n <= d ELSE d <= n /\ n <= 0

\* Whether the segment (x1, y1)-(x2, y2) crosses the segment (x3, y3)-(x4, y4),
\* as lineIntersectsLine computes it: t and u are the positions of the
\* crossing point of the two lines on the first and on the second segment.
lineIntersectsLine(x1, y1, x2, y2, x3, y3, x4, y4) ==
    LET denominator == (x1 - x2) * (y3 - y4) - (y1 - y2) * (x3 - x4)
        tNumerator == (x1 - x3) * (y3 - y4) - (y1 - y3) * (x3 - x4)
        uNumerator == -((x1 - x2) * (y1 - y3) - (y1 - y2) * (x1 - x3))
    IN  IF denominator = 0 THEN FALSE
        ELSE InUnitInterval(tNumerator, denominator)
             /\ InUnitInterval(uNumerator, denominator)

InsideRect(x, y, rect) ==
    x >= rect.left /\ x <= rect.right /\ y >= rect.top /\ y <= rect.bottom

\* Only the four sides are tried, not the endpoints.
lineIntersectsRectSidesOnly(x1, y1, x2, y2, rect) ==
    \/ lineIntersectsLine(x1, y1, x2, y2, rect.left, rect.top, rect.right, rect.top)
    \/ lineIntersectsLine(x1, y1, x2, y2, rect.right, rect.top, rect.right, rect.bottom)
    \/ lineIntersectsLine(x1, y1, x2, y2, rect.right, rect.bottom, rect.left, rect.bottom)
    \/ lineIntersectsLine(x1, y1, x2, y2, rect.left, rect.bottom, rect.left, rect.top)

lineIntersectsRect(x1, y1, x2, y2, rect) ==
    \/ InsideRect(x1, y1, rect)
    \/ InsideRect(x2, y2, rect)
    \/ lineIntersectsLine(x1, y1, x2, y2, rect.left, rect.top, rect.right, rect.top)
    \/ lineIntersectsLine(x1, y1, x2, y2, rect.right, rect.top, rect.right, rect.bottom)
    \/ lineIntersectsLine(x1, y1, x2, y2, rect.right, rect.bottom, rect.left, rect.bottom)
    \/ lineIntersectsLine(x1, y1, x2, y2, rect.left, rect.bottom, rect.left, rect.top)

\* The visible rectangle of drawEdges in canvas coordinates: the logical
\* canvas divided by the scale, widened by 50 / scale on every side.
viewportBounds(cv, sc, dpr) ==
    [left |-> -ToCanvas(edgeCullPadding, sc),
     top |-> -ToCanvas(edgeCullPadding, sc),
     right |-> ToCanvas(cv.width \div dpr, sc) + ToCanvas(edgeCullPadding, sc),
     bottom |-> ToCanvas(cv.height \div dpr, sc) + ToCanvas(edgeCullPadding, sc)]

\* The call of lineIntersectsRect alone: an edge P -> Q whose ends lie on a
\* grid around the visible rectangle (left of it, on its sides, inside, on
\* the lines through its corners, beyond it), P = Q included, and the visible
\* rectangles of a canvas of 0x0 and of 100x50 at the initial scale.
CullSizes == { [w |-> 0, h |-> 0], [w |-> 100, h |-> 50] }
CullCanvas(size) == [mounted |-> TRUE, ctx |-> TRUE, width |-> size.w, height |-> size.h]
CullRect(size) == viewportBounds(CullCanvas(size), initialScale, 1)
CullXs ==
    { -150 * Unit, -100 * Unit, 0, 100 * Unit, 200 * Unit, 2 * CullRect([w |-> 0, h |-> 0]).left + 100 * Unit }
        \cup { CullRect(size).left : size \in CullSizes }
        \cup { CullRect(size).right : size \in CullSizes }
CullYs ==
    { -150 * Unit, -100 * Unit, 0, 100 * Unit, 150 * Unit, 2 * CullRect([w |-> 0, h |-> 0]).top + 100 * Unit }
        \cup { CullRect(size).top : size \in CullSizes }
        \cup { CullRect(size).bottom : size \in CullSizes }
CullNodes ==
    { << MkNode("P", Fin(px), Fin(py), U, U, << "Q" >>),
         MkNode("Q", Fin(qx), Fin(qy), U, U, << >>) >> :
        px \in CullXs, py \in CullYs, qx \in CullXs, qy \in CullYs }

InitCulling ==
    \E ns \in CullNodes :
        Constructed([nodes |-> ns, devicePixelRatio |-> 1, hasContext |-> TRUE,
                     renderNodeThrows |-> FALSE])

\* lastOp keeps what the call returned.
lineIntersectsRectCall(size) ==
    /\ lastOp = "init"
    /\ canvas' = CullCanvas(size)
    /\ lastOp' = IF lineIntersectsRect(nodes[1].x.v, nodes[1].y.v, nodes[2].x.v, nodes[2].y.v,
                                       viewportBounds(canvas', scale, config.devicePixelRatio))
                 THEN "lineIntersectsRect: true"
                 ELSE "lineIntersectsRect: false"
    /\ UNCHANGED << viewer, config, phase, nodes, nodeDragging, isPanning, panOffset, scale,
                    lastPinchDistance, animationSpeed, animationFrameId,
                    pendingFrames, timerActive, listeners, resizeObserver, count,
                    event, notes >>

NextCulling == \E size \in CullSizes : lineIntersectsRectCall(size)
SpecCulling == InitCulling /\ [][NextCulling]_vars

\* s = n / d with d > 0, a position on the segment as a fraction.
Frac(n, d) == IF d > 0 THEN [n |-> n, d |-> d] ELSE [n |-> -n, d |-> -d]
FracLeq(a, b) == a.n * b.d <= b.n * a.d
\* The positions s with lo <= p + s * dp <= hi: empty (FALSE), or the
\* fractions from .from to .to.
Positions(p, dp, lo, hi) ==
    IF dp = 0
    THEN IF lo <= p /\ p <= hi THEN [some |-> TRUE, from |-> Frac(0, 1), to |-> Frac(1, 1)]
                              ELSE [some |-> FALSE, from |-> Frac(1, 1), to |-> Frac(0, 1)]
    ELSE IF dp > 0
    THEN [some |-> TRUE, from |-> Frac(lo - p, dp), to |-> Frac(hi - p, dp)]
    ELSE [some |-> TRUE, from |-> Frac(hi - p, dp), to |-> Frac(lo - p, dp)]
\* The closed segment and the closed rectangle share a point: some position
\* s in [0, 1] has (x1, y1) + s * (x2 - x1, y2 - y1) inside the rectangle.
\* The positions that fit in x and those that fit in y are intervals, and
\* intervals of a line share a point when each begins before each other ends.
SegmentMeetsRect(x1, y1, x2, y2, rect) ==
    LET inX == Positions(x1, x2 - x1, rect.left, rect.right)
        inY == Positions(y1, y2 - y1, rect.top, rect.bottom)
        froms == {inX.from, inY.from, Frac(0, 1)}
        tos == {inX.to, inY.to, Frac(1, 1)}
    IN  /\ inX.some /\ inY.some
        /\ \A a \in froms : \A b \in tos : FracLeq(a, b)

CullEdgeRect == viewportBounds(canvas, scale, config.devicePixelRatio)

\* C18: lineIntersectsRect returns true exactly when the closed segment
\* from (x1, y1) to (x2, y2) shares a point with the closed rectangle, for
\* every segment of the grid (segments along a side, through a corner and
\* of length zero included) and both rectangles; a horizontal segment across
\* the rectangle gives true and a segment left of the rectangle gives false.
C18_IntersectsIffSharesPoint ==
    lastOp \in {"lineIntersectsRect: true", "lineIntersectsRect: false"} =>
        /\ (lastOp = "lineIntersectsRect: true")
             <=> SegmentMeetsRect(nodes[1].x.v, nodes[1].y.v, nodes[2].x.v, nodes[2].y.v,
                                  CullEdgeRect)
        /\ (/\ nodes[1].y = nodes[2].y
            /\ nodes[1].y.v >= CullEdgeRect.top /\ nodes[1].y.v <= CullEdgeRect.bottom
            /\ nodes[1].x.v < CullEdgeRect.left /\ nodes[2].x.v > CullEdgeRect.right)
             => lastOp = "lineIntersectsRect: true"
        /\ (nodes[1].x.v < CullEdgeRect.left /\ nodes[2].x.v < CullEdgeRect.left)
             => lastOp = "lineIntersectsRect: false"
\* C18 witness: a segment along the line of the top side with both ends
\* outside the rectangle, one on each side of it, reported as intersecting.
C18_AlongTopSide ==
    /\ lastOp = "lineIntersectsRect: true"
    /\ nodes[1].y.v = CullEdgeRect.top /\ nodes[2].y.v = CullEdgeRect.top
    /\ nodes[1].x.v < CullEdgeRect.left /\ nodes[2].x.v > CullEdgeRect.right

\* ---------------------------------------------------------- drawEdges
\* The edge to edgeTargetNodeId of node i gets its line: both ends are found
\* and have coordinates, and an end is inside the visible rectangle or the
\* segment meets it.  A NaN or infinite coordinate fails every comparison
\* of the culling test, lineIntersectsRect included.
EdgeStroked(ns, i, edgeTargetNodeId, rect) ==
    LET sourceNode == FindNode(ns, ns[i].id)
        targetNode == FindNode(ns, edgeTargetNodeId)
    IN  /\ sourceNode # 0 /\ targetNode # 0
        /\ HasXY(ns[sourceNode]) /\ HasXY(ns[targetNode])
        /\ \/ InsideRect(ns[sourceNode].x.v, ns[sourceNode].y.v, rect)
           \/ InsideRect(ns[targetNode].x.v, ns[targetNode].y.v, rect)
           \/ lineIntersectsRect(ns[sourceNode].x.v, ns[sourceNode].y.v,
                                 ns[targetNode].x.v, ns[targetNode].y.v, rect)

\* The lines drawEdges strokes, each named by the node and the edge it is
\* drawn for.
drawEdges(ns, cv, sc, dpr) ==
    IF ~cv.ctx THEN {}
    ELSE UNION { { [source |-> ns[i].id, target |-> ns[i].edges[k]] :
                     k \in { j \in 1..Len(ns[i].edges) :
                               EdgeStroked(ns, i, ns[i].edges[j],
                                           viewportBounds(cv, sc, dpr)) } } :
                   i \in 1..Len(ns) }

\* ----------------------------------------------- a graph with a dangling edge
\* Node a with an edge to "zz", which no node has as its id, followed by an
\* edge to b; a and b are given coordinates more than minAttractionDistance
\* apart.  Mount on a 400x300 parent, then animation ticks.
DanglingNodes ==
    { << MkNode("a", Fin(ax * Unit), Fin(ay * Unit), U, U, << "zz", "b" >>),
         MkNode("b", Fin(bx * Unit), Fin(by * Unit), U, U, << >>) >> :
        ax \in {50, 100}, ay \in {50, 100}, bx \in {300, 350}, by \in {100, 250} }

InitDangling ==
    \E ns \in DanglingNodes :
        Constructed([nodes |-> ns, devicePixelRatio |-> 1, hasContext |-> TRUE,
                     renderNodeThrows |-> FALSE])
SpecDangling == InitDangling /\ [][NextTicks]_vars

HasNodeId(ns, id) == \E i \in 1..Len(ns) : ns[i].id = id
\* The same nodes without the edges whose target is no node's id.
WithoutDanglingEdges(ns) ==
    [i \in 1..Len(ns) |->
        [ns[i] EXCEPT !.edges = SelectSeq(@, LAMBDA id : HasNodeId(ns, id))]]
SamePlaces(ns, ms) ==
    /\ Len(ns) = Len(ms)
    /\ \A i \in 1..Len(ns) : ns[i].x = ms[i].x /\ ns[i].y = ms[i].y
LinesDrawn == drawEdges(nodes, canvas, scale, config.devicePixelRatio)

\* C19: an edge whose target id is the id of no node is skipped without
\* error.  A frame moves every node to where it moves it in the same graph
\* without that edge, it strokes the lines it strokes for that graph, none
\* of them for the dangling edge, the line of the edge that follows the
\* dangling one among them, and it goes on to draw the nodes.
C19_DanglingEdgeSkipped ==
    [][lastOp' = "animate" =>
         /\ SamePlaces(nodes', drawGraph(WithoutDanglingEdges(nodes), canvas,
                                         animationSpeed.steps).nodes)
         /\ LinesDrawn' = drawEdges(WithoutDanglingEdges(nodes'), canvas', scale',
                                    config.devicePixelRatio)
         /\ \A l \in LinesDrawn' : HasNodeId(nodes', l.target)
         /\ [source |-> "a", target |-> "b"] \in LinesDrawn'
         /\ notes'.passes = 1
         /\ RendersSomeNode(nodes', canvas', scale', config.devicePixelRatio)]_vars
\* C19 witness: a tick has run on the graph with the dangling edge, has
\* pulled a and b towards each other along the edge a -> b, and has stroked
\* that edge.
C19_FrameWithDanglingEdge ==
    /\ lastOp = "animate"
    /\ InSeq("zz", nodes[1].edges) /\ ~HasNodeId(nodes, "zz")
    /\ HasXY(nodes[1]) /\ HasXY(nodes[2])
    /\ PairDistanceSquared(nodes) < PairDistanceSquared(config.nodes)
    /\ LinesDrawn = {[source |-> "a", target |-> "b"]}

\* ------------------------------------------------- centerNodesOnCanvas
\* The nodes centerNodesOnCanvas takes as positioned.
PositionedNodes(ns) == {i \in 1..Len(ns) : IsDefined(ns[i].x) /\ IsDefined(ns[i].y)}
\* Twice the distance, along x and along y, between the center of the
\* bounding box of the positioned nodes and the logical canvas center, in
\* coordinate steps.
OffCenterX(ns, cv, dpr) ==
    LET P == PositionedNodes(ns)
        minX == CHOOSE v \in {ns[i].x.v : i \in P} : \A i \in P : v <= ns[i].x.v
        maxX == CHOOSE v \in {ns[i].x.v : i \in P} : \A i \in P : v >= ns[i].x.v
    IN  Abs(minX + maxX - (cv.width * Unit) \div dpr)
OffCenterY(ns, cv, dpr) ==
    LET P == PositionedNodes(ns)
        minY == CHOOSE v \in {ns[i].y.v : i \in P} : \A i \in P : v <= ns[i].y.v
        maxY == CHOOSE v \in {ns[i].y.v : i \in P} : \A i \in P : v >= ns[i].y.v
    IN  Abs(minY + maxY - (cv.height * Unit) \div dpr)

\* C20: when centerNodesOnCanvas has run (it runs once, in onMount) with some
\* node positioned, the center of the bounding box of the positioned nodes
\* is the logical canvas center, canvas.width / devicePixelRatio / 2 and
\* canvas.height / devicePixelRatio / 2, to within CenterTolerance steps of
\* rounding on the doubled distance.
CenterTolerance == 2
C20_CenteredAfterCenterOperation ==
    (/\ lastOp = "onMount"
     /\ PositionedNodes(nodes) # {}
     /\ \A i \in PositionedNodes(nodes) : HasXY(nodes[i])) =>
        /\ OffCenterX(nodes, canvas, config.devicePixelRatio) <= CenterTolerance
        /\ OffCenterY(nodes, canvas, config.devicePixelRatio) <= CenterTolerance

\* ------------------------------------------------ one frame, step by step
\* One run of drawGraph taken statement by statement; lastOp names the
\* statement that has just completed.  Node a has no coordinates, b has a
\* target and lies within distanceThreshold of the slot a gets, and c has
\* an edge to b: from well beyond minAttractionDistance, from just beyond
\* it, from within it, or without coordinates of its own.  With c far from
\* b each of the four layout steps moves some node.  The canvas is 400x300,
\* or 0x0, where applyForces returns before its first step.
FramePlacesOfC ==
    { << Fin(cx * Unit), Fin(cy * Unit) >> : cx \in {200, 250, 310, 350}, cy \in {100, 300} }
        \cup { << U, U >> }
FrameNodes ==
    { << MkNode("a", U, U, U, U, << >>),
         MkNode("b", Fin(bx * Unit), Fin(by * Unit), Fin(200 * Unit), Fin(150 * Unit), << >>),
         MkNode("c", cp[1], cp[2], U, U, << "b" >>) >> :
        bx \in {460, 470, 480}, by \in {130, 150, 170}, cp \in FramePlacesOfC }

InitFrame ==
    \E ns \in FrameNodes :
        Constructed([nodes |-> ns, devicePixelRatio |-> 1, hasContext |-> TRUE,
                     renderNodeThrows |-> FALSE])

\* The statement that opens the frame where it draws first and lays out
\* afterwards.
FrameSuccessorDrawFirst(statement, cv) ==
    CASE statement = "drawGraph" -> "drawEdges"
      [] statement = "drawEdges" -> "drawNodes"
      [] statement = "drawNodes" ->
            IF cv.width \div 2 = 0 /\ cv.height \div 2 = 0 THEN "return" ELSE "positionNodes"
      [] statement = "positionNodes" -> "applyRepulsionForces"
      [] statement = "applyRepulsionForces" -> "applyAttractionForces"
      [] statement = "applyAttractionForces" -> "applySpringForces"
      [] OTHER -> "return"

\* The statement of drawGraph and applyForces that follows `statement`.
FrameSuccessor(statement, cv) ==
    CASE statement = "drawGraph" ->
            IF (cv.width * Unit) \div 2 = 0 /\ (cv.height * Unit) \div 2 = 0
            THEN "drawEdges" ELSE "positionNodes"
      [] statement = "positionNodes" -> "applyRepulsionForces"
      [] statement = "applyRepulsionForces" -> "applyAttractionForces"
      [] statement = "applyAttractionForces" -> "applySpringForces"
      [] statement = "applySpringForces" -> "drawEdges"
      [] statement = "drawEdges" -> "drawNodes"
      [] OTHER -> "return"

FrameUnchanged ==
    UNCHANGED << viewer, config, phase, nodeDragging, isPanning, panOffset, scale,
                 lastPinchDistance, animationSpeed, animationFrameId,
                 pendingFrames, timerActive, listeners, resizeObserver, count,
                 event, notes >>

\* drawGraph is entered on a canvas with a context and clears it.
FrameEnter(size) ==
    /\ lastOp = "init"
    /\ canvas' = [mounted |-> TRUE, ctx |-> TRUE,
                  width |-> size.w * config.devicePixelRatio,
                  height |-> size.h * config.devicePixelRatio]
    /\ lastOp' = "drawGraph"
    /\ nodes' = nodes
    /\ FrameUnchanged
FramePosition ==
    /\ FrameSuccessor(lastOp, canvas) = "positionNodes"
    /\ nodes' = positionNodes(nodes, (canvas.width * Unit) \div 2, (canvas.height * Unit) \div 2)
    /\ lastOp' = "positionNodes"
    /\ canvas' = canvas
    /\ FrameUnchanged
FrameRepulsion ==
    /\ FrameSuccessor(lastOp, canvas) = "applyRepulsionForces"
    /\ nodes' = applyRepulsionForces(nodes, animationSpeed.steps)
    /\ lastOp' = "applyRepulsionForces"
    /\ canvas' = canvas
    /\ FrameUnchanged
FrameAttraction ==
    /\ FrameSuccessor(lastOp, canvas) = "applyAttractionForces"
    /\ nodes' = applyAttractionForces(nodes)
    /\ lastOp' = "applyAttractionForces"
    /\ canvas' = canvas
    /\ FrameUnchanged
FrameSpring ==
    /\ FrameSuccessor(lastOp, canvas) = "applySpringForces"
    /\ nodes' = applySpringForces(nodes)
    /\ lastOp' = "applySpringForces"
    /\ canvas' = canvas
    /\ FrameUnchanged
\* drawEdges and drawNodes read the coordinates and leave them as they are.
FrameDrawEdges ==
    /\ FrameSuccessor(lastOp, canvas) = "drawEdges"
    /\ lastOp' = "drawEdges"
    /\ UNCHANGED << nodes, canvas >>
    /\ FrameUnchanged
FrameDrawNodes ==
    /\ FrameSuccessor(lastOp, canvas) = "drawNodes"
    /\ lastOp' = "drawNodes"
    /\ UNCHANGED << nodes, canvas >>
    /\ FrameUnchanged

NextFrame ==
    \/ \E size \in Sizes : FrameEnter(size)
    \/ FramePosition
    \/ FrameRepulsion
    \/ FrameAttraction
    \/ FrameSpring
    \/ FrameDrawEdges
    \/ FrameDrawNodes
SpecFrame == InitFrame /\ [][NextFrame]_vars

\* The order of the statements of a frame, but for the statement before
\* drawEdges.
FrameOrder ==
    /\ lastOp' = "positionNodes" => lastOp = "drawGraph"
    /\ lastOp' = "applyRepulsionForces" => lastOp = "positionNodes"
    /\ lastOp' = "applyAttractionForces" => lastOp = "applyRepulsionForces"
    /\ lastOp' = "applySpringForces" => lastOp = "applyAttractionForces"
    /\ lastOp' = "drawNodes" => lastOp = "drawEdges"
    /\ lastOp' \in {"drawEdges", "drawNodes"} => nodes' = nodes

\* C21 (as stated): in every frame the four layout steps run in the order
\* position, repulsion, attraction, spring, and the renderer starts, edges
\* first and nodes after them, only when the spring step has completed.
C21_AllFourBeforeRender ==
    [][/\ FrameOrder
       /\ lastOp' = "drawEdges" => lastOp = "applySpringForces"]_vars

\* C21 (amended): in every frame on a canvas whose backing store is not 0x0
\* the four layout steps run in the order position, repulsion, attraction,
\* spring and complete before the renderer reads a position: the edges, and
\* after them the nodes, are drawn from the coordinates the four steps give
\* in that order.  On a 0x0 canvas no layout step runs and the edges and
\* the nodes are drawn from the coordinates the frame started with.
C21_LayoutBeforeRender ==
    [][/\ FrameOrder
       /\ lastOp' = "drawEdges" =>
            IF canvas.width = 0 /\ canvas.height = 0
            THEN lastOp = "drawGraph" /\ nodes = config.nodes
            ELSE /\ lastOp = "applySpringForces"
                 /\ nodes = applySpringForces(applyAttractionForces(applyRepulsionForces(
                                positionNodes(config.nodes, (canvas.width * Unit) \div 2,
                                              (canvas.height * Unit) \div 2),
                                animationSpeed.steps)))
                 /\ nodes = applyForces(config.nodes, canvas, animationSpeed.steps)]_vars
\* C21 witness: a frame on the 400x300 canvas has drawn its nodes after the
\* four steps gave a its coordinates and moved b and c.
C21_FrameDrawn ==
    /\ lastOp = "drawNodes"
    /\ canvas.width = 400
    /\ HasXY(nodes[1])
    /\ nodes[2].x # config.nodes[2].x
    /\ nodes[3].x # config.nodes[3].x \/ nodes[3].y # config.nodes[3].y

\* ------------------------------------------------ the positioning pass alone
\* Node lists for one run of positionNodes: one to four nodes without
\* coordinates or edges; a hub with one to three nodes that have an edge to
\* it; a placed node p on a grid around the first slot of a 400x300 canvas
\* with two nodes to place; and a node z without coordinates behind a ring
\* of twelve placed nodes on every third slot of the base circle of that
\* canvas, which leaves no slot of the circle free, alone or with a node y
\* that has an edge to z.
PlacementIds == << "a", "b", "c", "d" >>
RingIds == << "r01", "r04", "r07", "r10", "r13", "r16", "r19", "r22", "r25", "r28", "r31", "r34" >>
RingNodes ==
    [k \in 1..Len(RingIds) |->
        MkNode(RingIds[k],
               Fin(SlotX(200 * Unit, baseRadius * Unit, 3 * k - 2)),
               Fin(SlotY(150 * Unit, baseRadius * Unit, 3 * k - 2)), U, U, << >>)]
PlacementNodes ==
    { [k \in 1..n |-> MkNode(PlacementIds[k], U, U, U, U, << >>)] : n \in 1..4 }
    \cup { << MkNode("h", U, U, U, U, << >>) >>
             \o [k \in 1..n |-> MkNode(PlacementIds[k], U, U, U, U, << "h" >>)] : n \in 1..3 }
    \cup { << MkNode("a", U, U, U, U, << >>), MkNode("b", U, U, U, U, << >>),
              MkNode("p", Fin(px * Unit), Fin(py * Unit), U, U, << >>) >> :
             px \in {340, 370, 400, 430, 460}, py \in {90, 120, 150, 180, 210} }
    \cup { << MkNode("z", U, U, U, U, << >>) >> \o RingNodes,
           << MkNode("z", U, U, U, U, << >>) >> \o RingNodes
              \o << MkNode("y", U, U, U, U, << "z" >>) >> }
PlacementSizes == { [w |-> 400, h |-> 300], [w |-> 300, h |-> 300], [w |-> 800, h |-> 600] }

InitPlacement ==
    \E ns \in PlacementNodes :
        Constructed([nodes |-> ns, devicePixelRatio |-> 1, hasContext |-> TRUE,
                     renderNodeThrows |-> FALSE])

\* applyForces up to the return of positionNodes, on a canvas of the given
\* size.
PositionPass(size) ==
    /\ lastOp = "init"
    /\ canvas' = [mounted |-> TRUE, ctx |-> TRUE, width |-> size.w, height |-> size.h]
    /\ nodes' = positionNodes(nodes, (size.w * Unit) \div 2, (size.h * Unit) \div 2)
    /\ lastOp' = "positionNodes"
    /\ FrameUnchanged

NextPlacement == \E size \in PlacementSizes : PositionPass(size)
SpecPlacement == InitPlacement /\ [][NextPlacement]_vars

\* The squared distance between two nodes with coordinates, in squared steps.
DistanceSquared(n, m) == (n.x.v - m.x.v) ^ 2 + (n.y.v - m.y.v) ^ 2
\* The nodes the positioning pass has given coordinates.
AssignedNodes == {i \in 1..Len(nodes) : nodes[i].x # config.nodes[i].x
                                          \/ nodes[i].y # config.nodes[i].y}

\* C22: when the positioning pass has run, every node it gave coordinates
\* is at least 50 units away from every other node that has coordinates
\* (those placed before it were there when it was placed, those placed
\* after it kept their distance from it); and the search along a growing
\* radius came to an end for it within 2 * 50 / 10 increments for each node
\* of the list: it lies no farther from the canvas center along either axis
\* than the base radius plus 100 units for each node.
C22_MinimumSeparation ==
    lastOp = "positionNodes" =>
        \A i \in AssignedNodes :
           /\ HasXY(nodes[i])
           /\ \A j \in 1..Len(nodes) :
                (j # i /\ HasXY(nodes[j])) =>
                    DistanceSquared(nodes[i], nodes[j]) >= (minSeparation * Unit) ^ 2
           /\ Abs(nodes[i].x.v - (canvas.width * Unit) \div 2)
                <= (baseRadius + 2 * minSeparation * Len(nodes)) * Unit
           /\ Abs(nodes[i].y.v - (canvas.height * Unit) \div 2)
                <= (baseRadius + 2 * minSeparation * Len(nodes)) * Unit
\* C22 witness: with every slot of the base circle taken, z has been placed
\* on its own angle at a radius grown beyond the base radius.
C22_PlacedBeyondTheRing ==
    /\ lastOp = "positionNodes"
    /\ nodes[1].id = "z" /\ 1 \in AssignedNodes
    /\ Len(nodes) > Len(RingIds)
    /\ canvas.width = 400
    /\ nodes[1].y.v = 150 * Unit
    /\ nodes[1].x.v > (200 + baseRadius) * Unit

\* The slot of the base circle at the computed angle of node i, a node
\* without edges: index / length of a full turn, index and length taken in
\* the list of the nodes without edges.
OwnSlot(ns, i) ==
    AngleSlot(Cardinality({j \in 1..(i - 1) : Len(ns[j].edges) = 0}),
              Cardinality({j \in 1..Len(ns) : Len(ns[j].edges) = 0}))
\* No other node with coordinates is within 50 units of the point (px, py).
FreeForNode(ns, i, px, py) ==
    \A j \in 1..Len(ns) : j # i => ~NearPoint(ns[j], px, py, minSeparation * Unit)

\* C23: when the positioning pass has placed a node without edges, and the
\* slot at the node's computed angle on the base circle is free (no other
\* node within 50 units of it, then or afterwards), the node is at that
\* slot: the probing starts there and takes it.
C23_FreeOwnSlotChosen ==
    lastOp = "positionNodes" =>
        \A i \in AssignedNodes :
            (/\ Len(nodes[i].edges) = 0
             /\ FreeForNode(nodes, i,
                            SlotX((canvas.width * Unit) \div 2, baseRadius * Unit, OwnSlot(nodes, i)),
                            SlotY((canvas.height * Unit) \div 2, baseRadius * Unit, OwnSlot(nodes, i))))
            => /\ nodes[i].x = Fin(SlotX((canvas.width * Unit) \div 2, baseRadius * Unit,
                                         OwnSlot(nodes, i)))
               /\ nodes[i].y = Fin(SlotY((canvas.height * Unit) \div 2, baseRadius * Unit,
                                         OwnSlot(nodes, i)))

\* attractionForce * (distance - minAttractionDistance) for two nodes with
\* coordinates, in steps.
AttractionMagnitude(n, m) ==
    MulDiv(Hypot(n.x.v - m.x.v, n.y.v - m.y.v) - minAttractionDistance * Unit,
           attractionForcePerMille, 1000)
\* The rounding of a displacement to whole steps along each axis.
MagnitudeTolerance == 2

\* C24: one application of the attraction step to the single edge c -> b.
\* It moves a node only if c and b both have coordinates and are more than
\* minAttractionDistance apart; it then moves c and b by opposite vectors
\* of equal size, attractionForce x (distance - minAttractionDistance) each,
\* towards each other, and leaves them at least minAttractionDistance apart.
C24_AttractionOnStretchedEdges ==
    [][lastOp' = "applyAttractionForces" =>
         /\ nodes'[1] = nodes[1]
         /\ IF /\ HasXY(nodes[2]) /\ HasXY(nodes[3])
               /\ DistanceSquared(nodes[2], nodes[3]) > (minAttractionDistance * Unit) ^ 2
            THEN /\ HasXY(nodes'[2]) /\ HasXY(nodes'[3])
                 /\ nodes'[3].x.v - nodes[3].x.v = -(nodes'[2].x.v - nodes[2].x.v)
                 /\ nodes'[3].y.v - nodes[3].y.v = -(nodes'[2].y.v - nodes[2].y.v)
                 /\ Abs(Hypot(nodes'[3].x.v - nodes[3].x.v, nodes'[3].y.v - nodes[3].y.v)
                        - AttractionMagnitude(nodes[2], nodes[3])) <= MagnitudeTolerance
                 /\ DistanceSquared(nodes'[2], nodes'[3]) <= DistanceSquared(nodes[2], nodes[3])
                 /\ AttractionMagnitude(nodes[2], nodes[3]) > MagnitudeTolerance
                      => DistanceSquared(nodes'[2], nodes'[3])
                           < DistanceSquared(nodes[2], nodes[3])
                 /\ DistanceSquared(nodes'[2], nodes'[3]) >= (minAttractionDistance * Unit) ^ 2
            ELSE nodes' = nodes]_vars
\* C24 witness: the attraction step has pulled c and b towards each other
\* from just beyond minAttractionDistance.
C24_PulledFromJustBeyond ==
    /\ lastOp = "applyAttractionForces"
    /\ config.nodes[3].x = Fin(310 * Unit)
    /\ HasXY(nodes[2]) /\ HasXY(nodes[3])
    /\ nodes[3].x.v > 310 * Unit
    /\ DistanceSquared(nodes[2], nodes[3]) < ((minAttractionDistance + 20) * Unit) ^ 2

\* C25: once the component is disposed, no timer callback of the component
\* runs and animationSpeed keeps its value.
C25_NoTimerAfterDisposal ==
    [][phase = "disposed" =>
         /\ lastOp' # "decreaseAnimationSpeed"
         /\ animationSpeed' = animationSpeed]_vars

\* ---------------------------------------------------------------- C26
\* What of a node no operation may touch: everything but x and y.
NodeIdentity(n) ==
    [id |-> n.id, label |-> n.label, edges |-> n.edges,
     targetX |-> n.targetX, targetY |-> n.targetY]

\* C26: in every state the node list has the number and order of the nodes
\* the caller passed, and each node has the id, label, edges, targetX and
\* targetY it was passed with; only x and y ever differ.
C26_NodeIdentityKept ==
    /\ Len(nodes) = Len(config.nodes)
    /\ \A i \in 1..Len(nodes) : NodeIdentity(nodes[i]) = NodeIdentity(config.nodes[i])

\* A pan move has shifted a node that has a target, after frames moved it.
C26_MovedNodeWithTarget ==
    /\ lastOp = "onMouseMove"
    /\ isPanning
    /\ \E i \in 1..Len(nodes) :
         /\ IsDefined(nodes[i].targetX)
         /\ IsFin(nodes[i].x) /\ IsFin(config.nodes[i].x)
         /\ nodes[i].x # config.nodes[i].x

\* ---------------------------------------------------------------- C27
Unpositioned(n) == ~IsDefined(n.x) /\ ~IsDefined(n.y)

\* C27: a mouse or touch pan move leaves every node that has no coordinates
\* without coordinates.
C27_PanKeepsUnpositioned ==
    [][(lastOp' \in {"onMouseMove", "onTouchMove"} /\ isPanning) =>
         \A i \in 1..Len(nodes) : Unpositioned(nodes[i]) => Unpositioned(nodes'[i])]_vars

ThrottleTick ==
    /\ timerActive
    /\ IF SpeedAbove(animationSpeed, Double(minAnimationSpeed))
       THEN /\ animationSpeed' = SubtractRate(animationSpeed)
            /\ timerActive' = timerActive
       ELSE /\ animationSpeed' = animationSpeed
            /\ timerActive' = FALSE
    /\ lastOp' = "decreaseAnimationSpeed"
    /\ event' = NoEvent
    /\ notes' = NoNotes
    /\ UNCHANGED << viewer, config, phase, nodes, nodeDragging, isPanning, panOffset, scale,
                    lastPinchDistance, canvas, animationFrameId, pendingFrames, listeners,
                    resizeObserver, count >>

NextThrottle ==
    \/ onCanvasMount(TickSize)
    \/ onMount(TickSize)
    \/ ThrottleTick
SpecThrottle == InitTicks /\ [][NextThrottle]_vars

\* ---------------------------------------------------------------- C29
\* C29: animationSpeed never increases; a timer tick that finds it above
\* minAnimationSpeed takes animationSpeedDecreaseRate off it, any other tick
\* cancels the timer and leaves it as it is; and it never falls below
\* minAnimationSpeed.
C29_ThrottleMonotoneAboveMinimum ==
    [][/\ ~SpeedAbove(animationSpeed', animationSpeed)
       /\ lastOp' = "decreaseAnimationSpeed" =>
            IF SpeedAbove(animationSpeed, Double(minAnimationSpeed))
            THEN animationSpeed'.steps = animationSpeed.steps - animationSpeedDecreaseRate
                 /\ timerActive'
            ELSE animationSpeed' = animationSpeed /\ ~timerActive'
       /\ ~SpeedAbove(Double(minAnimationSpeed), animationSpeed')]_vars

\* The parts of C29 apart.  The speed never increases, and a tick takes the
\* rate off or cancels the timer ...
C29_MonotoneSteps ==
    [][/\ ~SpeedAbove(animationSpeed', animationSpeed)
       /\ lastOp' = "decreaseAnimationSpeed" =>
            IF SpeedAbove(animationSpeed, Double(minAnimationSpeed))
            THEN animationSpeed'.steps = animationSpeed.steps - animationSpeedDecreaseRate
                 /\ timerActive'
            ELSE animationSpeed' = animationSpeed /\ ~timerActive']_vars
\* ... the timer has cancelled itself, after 200 decrements and one more
\* tick ...
C29_TimerCancelled ==
    ~timerActive /\ phase = "mounted" /\ lastOp = "decreaseAnimationSpeed"
\* ... and the speed it ends with is 5 - 98 * 2^-50 = 4.999999999999913.
C29_EndsBelowMinimum ==
    /\ C29_TimerCancelled
    /\ animationSpeed = [steps |-> minAnimationSpeed,
                         units |-> Double(minAnimationSpeed).units - 98]

\* ------------------------------------------------ ThreeDimensionModelViewer
\* (src/ui/components/ThreeDimensionModelViewer.tsx)  The NetworkGraph
\* variables stay as constructed; only viewer changes.
MaxRenders == 5
graphVars == << config, phase, nodes, nodeDragging, isPanning, panOffset, scale,
                lastPinchDistance, canvas, animationSpeed, animationFrameId,
                pendingFrames, timerActive, listeners, resizeObserver, count,
                lastOp, event, notes >>

\* props.initializationDelay
InitializationDelays == {0, 100}

\* The frame counter after a run of animate past its early returns: the
\* initial orbit counts the frames up to 101, or, when it is disabled or
\* over, the counter is set to undefined.
NextFrameCount(v) ==
    IF v.frame # << >> /\ v.frame[1] <= 100
    THEN IF v.enableInitialAnimation THEN << v.frame[1] + 1 >> ELSE << >>
    ELSE << >>

\* The ref callback of the container: observe its size and defer the
\* initialization, by a timeout when the delay is positive.
onContainerElementMount(delay, initialAnimation) ==
    /\ viewer.phase = "created"
    /\ viewer' = [viewer EXCEPT
            !.phase = "mounted",
            !.enableInitialAnimation = initialAnimation,
            !.observer = "observing",
            !.timeout = (delay > 0),
            !.pendingFrames = IF delay > 0 THEN @ ELSE @ \cup {"init"},
            !.requested = IF delay > 0 THEN @ ELSE @ + 1,
            !.lastOp = "onContainerElementMount"]
    /\ UNCHANGED graphVars

\* The setTimeout callback: it requests the frame that initializes.
InitializationTimeout ==
    /\ viewer.timeout
    /\ viewer' = [viewer EXCEPT
            !.timeout = FALSE,
            !.pendingFrames = @ \cup {"init"},
            !.requested = @ + 1,
            !.lastOp = "setTimeout"]
    /\ UNCHANGED graphVars

\* initThree: a new renderer, scene, camera, controls and loader.
initThree(v) ==
    [v EXCEPT !.renderer = "live", !.scene = TRUE, !.camera = TRUE,
              !.controls = "live", !.loader = TRUE]

\* loadModel: loader?.load(...) starts a load when there is a loader.
loadModel(v) == IF v.loader THEN [v EXCEPT !.loading = "pending"] ELSE v

\* onWindowResized: without renderer or camera nothing; else the renderer
\* is resized and, with a scene, a frame is rendered.
onWindowResized(v) ==
    IF v.renderer = "none" \/ ~v.camera THEN v
    ELSE IF v.scene THEN [v EXCEPT !.rendered = @ + 1] ELSE v

\* The body of animate: it returns while loading or when controls, scene,
\* renderer or camera is missing; else it renders and requests itself.
animateBody(v) ==
    IF v.isLoading THEN v
    ELSE IF v.controls = "none" \/ ~v.scene \/ v.renderer = "none" \/ ~v.camera THEN v
    ELSE [v EXCEPT !.frame = NextFrameCount(v),
                   !.rendered = @ + 1,
                   !.pendingFrames = @ \cup {"animate"},
                   !.requested = @ + 1]

\* The animation-frame callback of the deferred initialization.
DeferredInitialization ==
    /\ "init" \in viewer.pendingFrames
    /\ viewer' = [onWindowResized(loadModel(initThree(
                      [viewer EXCEPT !.pendingFrames = @ \ {"init"}])))
                  EXCEPT !.lastOp = "initThree"]
    /\ UNCHANGED graphVars

\* The onLoad callback of loader.load.
ModelLoaded ==
    /\ viewer.loading = "pending"
    /\ viewer.rendered < MaxRenders
    /\ viewer' = [animateBody([viewer EXCEPT !.loading = "done", !.contentGroup = TRUE,
                                             !.isLoading = FALSE])
                  EXCEPT !.lastOp = "onLoad"]
    /\ UNCHANGED graphVars

\* The onError callback of loader.load.
ModelLoadFailed ==
    /\ viewer.loading = "pending"
    /\ viewer' = [viewer EXCEPT !.loading = "failed", !.isLoading = FALSE,
                                !.lastOp = "onError"]
    /\ UNCHANGED graphVars

\* The animation-frame callback animate.
viewerAnimate ==
    /\ "animate" \in viewer.pendingFrames
    /\ viewer.rendered < MaxRenders
    /\ viewer' = [animateBody([viewer EXCEPT !.pendingFrames = @ \ {"animate"}])
                  EXCEPT !.lastOp = "animate"]
    /\ UNCHANGED graphVars

\* The ResizeObserver callback.
ContainerResized ==
    /\ viewer.observer = "observing"
    /\ viewer.rendered < MaxRenders
    /\ viewer' = [onWindowResized(viewer) EXCEPT !.lastOp = "onWindowResized"]
    /\ viewer' # viewer
    /\ UNCHANGED graphVars

\* The two onCleanup callbacks: the observer is disconnected, controls and
\* renderer are disposed of (the variables keep the objects), loader, scene,
\* camera and contentGroup are set to undefined.
viewerOnCleanup ==
    /\ viewer.phase = "mounted"
    /\ viewer' = [viewer EXCEPT
            !.phase = "disposed",
            !.observer = "disconnected",
            !.controls = IF @ = "none" THEN @ ELSE "disposed",
            !.renderer = IF @ = "none" THEN @ ELSE "disposed",
            !.loader = FALSE, !.scene = FALSE, !.camera = FALSE,
            !.contentGroup = FALSE,
            !.lastOp = "onCleanup"]
    /\ UNCHANGED graphVars

InitViewer == Constructed(TickConfig(1))
NextViewer ==
    \/ \E delay \in InitializationDelays, initialAnimation \in BOOLEAN :
         onContainerElementMount(delay, initialAnimation)
    \/ InitializationTimeout
    \/ DeferredInitialization
    \/ ModelLoaded
    \/ ModelLoadFailed
    \/ viewerAnimate
    \/ ContainerResized
    \/ viewerOnCleanup
SpecViewer == InitViewer /\ [][NextViewer]_vars

\* ---------------------------------------------------------------- C30
\* C30: once the viewer's cleanup has run, no step creates a renderer, scene,
\* camera or controls, renders a frame, or requests an animation frame.
C30_DisposalFinal ==
    [][viewer.phase = "disposed" =>
         /\ viewer'.renderer = viewer.renderer
         /\ viewer'.controls = viewer.controls
         /\ viewer'.scene = viewer.scene
         /\ viewer'.camera = viewer.camera
         /\ viewer'.rendered = viewer.rendered
         /\ viewer'.requested = viewer.requested]_vars

\* The part of C30 that holds: a cleanup that comes after the deferred
\* initialization is final.
C30_FinalAfterInitialization ==
    [][(viewer.phase = "disposed" /\ viewer.renderer = "disposed"
        /\ "init" \notin viewer.pendingFrames /\ ~viewer.timeout) =>
         /\ viewer'.renderer = viewer.renderer
         /\ viewer'.controls = viewer.controls
         /\ viewer'.scene = viewer.scene
         /\ viewer'.camera = viewer.camera
         /\ viewer'.rendered = viewer.rendered
         /\ viewer'.requested = viewer.requested]_vars
\* The model has loaded after such a cleanup, and animate returned at once.
C30_LoadedAfterCleanup ==
    /\ viewer.phase = "disposed" /\ viewer.renderer = "disposed"
    /\ viewer.lastOp = "onLoad" /\ "animate" \notin viewer.pendingFrames

====
